---- MODULE Spec2Model ----
(***************************************************************************)
(* State-machine model of the WSPRDAEMON Reflector                         *)
(* (src/wsprdaemon_reflector.py): the Scanner thread (scan_and_queue,      *)
(* handle_tbz_file, process_file), the QueueManager purge and one          *)
(* RsyncWorker per destination, together with the environment that         *)
(* uploads and removes bundles, advances the clock and makes system calls  *)
(* fail.                                                                   *)
(* Second part: the WSPRDAEMON Ingester (src/wsprdaemon_server.py, main):  *)
(* its cycle over the incoming bundles, the processed memo, the retried    *)
(* inserts, and the environment that delivers bundles, makes inserts and   *)
(* file operations fail and interrupts the process.                        *)
(* Third part: the BatchLoader (src/tar-bulk-loader.py, main): its runs    *)
(* over the tar files, the state file, the batched inserts and the limit.  *)
(* Fourth part: the text conversions: the spot lines and noise files of a  *)
(* bundle as the Ingester and the BatchLoader parse them, and              *)
(* maidenhead_to_latlon of src/fix_grid_coordinates.py.                    *)
(***************************************************************************)
EXTENDS Integers, Sequences, FiniteSets, TLC

\* ------------------------------------------------------------- bounds
MaxFaults == 1     \* failing system calls / inconclusive validations injected
MaxValidations == 3  \* the observers count the validations of a file up to this
MaxInode == 3      \* inode numbers 1..MaxInode of the upload filesystem
MaxBatches == 2    \* sub-batches of one insert_spots call

\* ------------------------------------------------- configuration values
NumDests == 2      \* config['destinations'], in configured order 1..NumDests
min_age_seconds == 1
corrupt_min_age_seconds == 1
queue_purge_batch == 1
max_files_per_scan == 2
min_free_space_percent == 25
\* the hard-coded back-off of handle_tbz_file
RetryCycles == 100

\* the Ingester's configuration
max_retries == 3
max_processed_file_size == 12
\* len(e.encode('utf-8')) + 1 of a pathname of the model
EntrySize == 6

\* pathnames of bundles in the incoming directories, in sorted order
Bundles == {"x.tbz", "y.tbz"}
\* a bundle: whether it can be extracted, how many sub-batches
\* (max_spots_per_insert rows each) its spots make, whether it has noise,
\* whether the date and time of every spot make a datetime
Contents ==
    {[ok |-> FALSE, spots |-> 0, noise |-> 0, convertible |-> TRUE]}
    \cup [ok : {TRUE}, spots : 0..MaxBatches, noise : 0..1,
          convertible : {TRUE}]
\* bundles with a spot whose date or time convert_spot_to_clickhouse rejects
BadDates ==
    [ok : {TRUE}, spots : 1..MaxBatches, noise : 0..1, convertible : {FALSE}]
NoBundle == [ok |-> FALSE, spots |-> -1, noise |-> -1, convertible |-> TRUE]
NoTries == [spots |-> 0, noise |-> 0]

\* the BatchLoader's configuration: --batch-size
batch_size == 2
\* the *.tar files of --tar-dir, in sorted order
TarOrder == <<"a.tar", "b.tar">>
TarNames == {"a.tar", "b.tar"}
\* an inner member: a tbz that yields one spot and one noise record, or a
\* member that cannot be read from the outer tar
MemberKinds == {"tbz", "unreadable"}
NoTars == [t \in TarNames |-> <<>>]
NoState == [completed_tars |-> {}, total_tbz |-> -1]
NoArgs == [limit |-> 0, reset |-> FALSE, dry_run |-> FALSE]

Dests == 1..NumDests
\* /home/*/uploads of two users
Dirs == {"u1", "u2"}
\* config['delete_patterns'] = ['AI6VN_25*']: the filenames of the model
\* that match it
delete_patterns == {"AI6VN_25.tbz", "AI6VN_25.txt"}
\* the filenames that end in '.tbz'
TbzNames == {"a.tbz", "b.tbz", "AI6VN_25.tbz"}
Names == TbzNames \cup delete_patterns
Paths == Dirs \X Names
Inodes == 1..MaxInode
Kinds == {"good", "bad"}

VARIABLES
    now,                  \* time.time()
    uploads,              \* number of bundles uploaded so far
    upload,               \* upload directories: path -> file, NoFile when absent
    queue,                \* queue dirs: destination -> filename -> file or NoFile
    tmp,                  \* leftover .<filename>.tmp files per destination queue
    quarantine,           \* files moved to the quarantine directory
    quarantine_dir,       \* config: whether a quarantine directory is set
    can_hardlink,         \* FileScanner.can_hardlink: source dir -> BOOLEAN
    validated_inodes,     \* FileScanner.validated_inodes
    corrupt_inodes,       \* FileScanner.corrupt_inodes: inode -> first_seen, -1 absent
    inconclusive_inodes,  \* FileScanner.inconclusive_inodes: inode -> retry_count, 0 absent
    pc,                   \* Scanner position: "wait", "handle", "fanout", "stopped"
    tbz_files,            \* scan_and_queue: paths still to handle in this cycle
    cur,                  \* process_file: filepath of the pass
    destIdx,              \* process_file: index of the next destination
    success_count,        \* process_file: success_count
    faults,               \* failures injected so far
    stop_event,           \* the threading.Event of main: is_set()
    wpc,                  \* RsyncWorker d's position: "wait", "probe", "rsync", "stopped"
    queued_count,         \* sync_files of worker d: queued_count
    free_percent,         \* sync_files of worker d: free_percent, NoProbe when unset
    \* ---- history variables (observers, never read by the program)
    curFile,              \* the file the running pass was started for
    outcome,              \* per destination, what the running pass did
    drained,              \* names taken from a queue by its worker in this cycle
    purged,               \* names removed from a queue by a purge in this cycle
    accepted,             \* path -> destinations its present file was placed in
    res,                  \* path -> result of its last pass in this cycle
    validations,          \* path -> validator runs on its present file
    everCorrupt,          \* paths whose present file was reported corrupt
    skips,                \* inode -> increment-only cycles since inconclusive
    \* ---- the Ingester (src/wsprdaemon_server.py)
    incoming,             \* incoming directory: pathname -> bundle, NoBundle when absent
    processed_file,       \* the processed memo on disk: sequence of pathnames
    processed_set,        \* main: processed_set loaded for the cycle
    ipc,                  \* main: "sleep", "extract", "spots", "noise", "mark", "unlink"
    unprocessed,          \* main: bundles of the cycle not yet finished, current first
    attempt,              \* main: attempt of the running retry loop
    dry_run,              \* config['dry_run']
    ifaults,              \* failing inserts injected so far
    ffaults,              \* failing unlinks and memo accesses injected so far
    deliveries,           \* pathname -> times a bundle was delivered under it
    restarts,             \* interruptions of the Ingester so far
    \* ---- history variables of the Ingester
    spots_done,           \* pathname -> insert_spots calls that returned True
    partial_rows,         \* pathname -> sub-batches inserted by failed insert_spots calls
    noise_done,           \* pathname -> insert_noise calls that returned True
    memoed,               \* pathnames for which mark_tbz_processed was called
    tries,                \* insert_spots / insert_noise calls for the current bundle
    stage_ok,             \* the inserts that returned True for the current bundle
    skipped,              \* bundles given up in the current cycle
    memo_reads,           \* times the memo was opened for reading in the cycle
    marks,                \* mark_tbz_processed calls in the cycle
    \* ---- the BatchLoader (src/tar-bulk-loader.py)
    tars,                 \* tar directory: tar name -> its inner members in order
    state_file,           \* the state file: completed_tars and total_tbz, NoState if absent
    args,                 \* args.limit, args.reset, args.dry_run of the run
    lpc,                  \* main: "idle", "tar", "member", "end"
    tar_files,            \* main: tars of the run not yet finished, current first
    completed,            \* main: completed
    grand_tbz,            \* main: grand_tbz
    idx,                  \* main: members of the current tar gone through
    tar_tbz,              \* main: tar_tbz
    spots_buf,            \* main: len(spots_buf)
    noise_buf,            \* main: len(noise_buf)
    tbz_limit_hit,        \* main: tbz_limit_hit
    lfaults,              \* failures injected into the BatchLoader so far
    runs,                 \* runs of the BatchLoader started so far
    \* ---- history variables of the BatchLoader
    run_tbz,              \* inner tbz files processed in the current run
    failed_insert,        \* an insert_batch call for the current tar returned False
    unread,               \* a member of the current tar could not be read
    opened,               \* tars opened in the current run
    \* ---- one spot file of a bundle on its way to the database
    sp_prog,              \* the program that parses it: "ingester" or "loader"
    sp_file,              \* its lines, each a sequence of tokens (line.split())
    sp_pc,                \* "idle", "parse", "convert", "insert", "done"
    sp_line,              \* lines gone through
    sp_spots,             \* spots: the parsed lines not yet converted
    sp_records,           \* ch_records / spots_out: the converted records
    sp_inserted,          \* the rows the database has received
    sp_dropped,           \* the parse or the conversion was cut short
    \* ---- the noise files of a bundle
    nz_prog,              \* the program that reads them: "ingester" or "loader"
    nz_files,             \* their bodies, each a sequence of lines of tokens
    nz_idx,               \* files gone through
    nz_records,           \* noise_records / noise_out
    \* ---- one call of maidenhead_to_latlon
    gr_in,                \* grid
    gr_out,               \* the (lat, lon) returned, in thousandths of a degree
    gr_pc,                \* "idle", "call", "returned"
    \* ---- process_file, the copy of one bundle into one queue step by step
    cp,                   \* shutil.copy2 into temp_path: "none", "partial",
                          \* "complete"
    \* ---- os.scandir
    dir_order             \* the order in which the upload directories list
                          \* their files, <<>> when any order may come up

progVars == <<now, uploads, upload, queue, tmp, quarantine, quarantine_dir,
              can_hardlink, validated_inodes, corrupt_inodes,
              inconclusive_inodes, pc, tbz_files, cur, destIdx, success_count,
              faults, stop_event, wpc, queued_count, free_percent>>
histVars == <<curFile, outcome, drained, purged, accepted, res, validations,
              everCorrupt, skips>>
ingVars == <<incoming, processed_file, processed_set, ipc, unprocessed,
             attempt, dry_run, ifaults, ffaults, deliveries, restarts>>
cumHist == <<spots_done, partial_rows, noise_done, memoed>>
cycHist == <<tries, stage_ok, skipped, memo_reads, marks>>
ingHist == <<cumHist, cycHist>>
reflectorVars == <<progVars, histVars>>
tarVars == <<idx, tar_tbz, spots_buf, noise_buf, tbz_limit_hit>>
ldHist == <<run_tbz, failed_insert, unread, opened>>
ldVars == <<tars, state_file, args, lpc, tar_files, completed, grand_tbz,
            tarVars, lfaults, runs, ldHist>>
spVars == <<sp_prog, sp_file, sp_pc, sp_line, sp_spots, sp_records,
            sp_inserted, sp_dropped>>
nzVars == <<nz_prog, nz_files, nz_idx, nz_records>>
gridVars == <<gr_in, gr_out, gr_pc>>
copyVars == <<cp>>
auxVars == <<copyVars, dir_order>>
textVars == <<spVars, nzVars, gridVars, auxVars>>
vars == <<progVars, histVars, ingVars, ingHist, ldVars, textVars>>

\* variable groups, for the frame conditions
cacheVars == <<validated_inodes, corrupt_inodes, inconclusive_inodes>>
passVars == <<cur, destIdx, success_count, curFile, outcome>>
cfgVars == <<quarantine_dir, can_hardlink>>
fileHist == <<accepted, validations, everCorrupt>>
threadVars == <<stop_event, wpc, queued_count, free_percent>>
workerVars == <<wpc, queued_count, free_percent>>

Min(a, b) == IF a < b THEN a ELSE b

NoPath == <<"", "">>
NoFile == [kind |-> "none", ino |-> 0, mtime |-> 0, dir |-> ""]
\* res: how the pass ended ("unlinked", "kept", "unlinkfail", "gone") and
\* the destinations it did not count as success
NoResult == [r |-> "none", failed |-> {}]
\* free_percent before check_remote_free_space has returned
NoProbe == -2

\* One more failure of class c may be injected, given the classes F the
\* environment of the specification injects.  Classes: "place" (link, copy or
\* rename fails), "tmp" (unlink of the temp file fails), "purge" (unlink in a
\* purge fails), "unlink" (unlink of the source fails), "delete" (delete or
\* quarantine of a corrupt file fails), "timeout" (validation is
\* inconclusive), "pressure" (the local disk is above local_max_used_percent),
\* "unwanted" (unlink of a file that matches a delete pattern fails)
MayFail(F, c) == c \in F /\ faults < MaxFaults

\* ---------------------------------------------------------- file system
FileName(p) == p[2]
SourceDir(p) == p[1]

get_file_age(p) == IF upload[p] = NoFile THEN 0 ELSE now - upload[p].mtime

get_file_inode(p) == upload[p].ino

\* inodes with a link in an upload directory or, when queued by hard link,
\* in a queue directory
InodesInUse ==
    {upload[p].ino : p \in {x \in Paths : upload[x] # NoFile}}
    \cup {queue[x[1]][x[2]].ino :
            x \in {y \in Dests \X Names :
                     /\ queue[y[1]][y[2]] # NoFile
                     /\ can_hardlink[queue[y[1]][y[2]].dir]}}

\* the inode number a new file gets: the lowest free one
FreeInode == {i \in Inodes : /\ i \notin InodesInUse
                             /\ \A j \in Inodes \ InodesInUse : i <= j}

Present(qd) == {n \in Names : qd[n] # NoFile}

\* the names of the entries of a queue directory: filename under which a
\* bundle is queued, and temp_path = dest_queue / f".{filename}.tmp"
FinalName(n) == <<"", n, "">>
TmpName(n) == <<".", n, ".tmp">>
DirEntries(d) ==
    {FinalName(n) : n \in Present(queue[d])} \cup {TmpName(n) : n \in tmp[d]}

\* e.name.endswith('.tbz')
endswith_tbz(e) == e[3] = "" /\ e[2] \in TbzNames

\* for comparison: an rsync command without --exclude
rsync_excludes_Nothing(e) == FALSE

\* rsync --exclude '.*'
rsync_excludes(e) == e[1] = "."

\* sync_files: the entries counted into queued_count, and the entries the
\* rsync command takes from the queue directory
CountedEntries(d) == {e \in DirEntries(d) : endswith_tbz(e)}
Transferable(d) == {e \in DirEntries(d) : ~rsync_excludes(e)}
FinalNamesIn(S) == {n \in Names : FinalName(n) \in S}
TmpNamesIn(S) == {n \in Names : TmpName(n) \in S}

QueueCount(q, d) == Cardinality(Present(q[d]))

\* the Ingester before its first cycle: empty incoming directory, no memo
IngStart ==
    /\ incoming = [b \in Bundles |-> NoBundle]
    /\ processed_set = {}
    /\ ipc = "sleep"
    /\ unprocessed = <<>>
    /\ attempt = 0
    /\ ifaults = 0
    /\ ffaults = 0
    /\ deliveries = [b \in Bundles |-> 0]
    /\ restarts = 0
    /\ spots_done = [b \in Bundles |-> 0]
    /\ partial_rows = [b \in Bundles |-> 0]
    /\ noise_done = [b \in Bundles |-> 0]
    /\ memoed = {}
    /\ tries = NoTries
    /\ stage_ok = {}
    /\ skipped = {}
    /\ memo_reads = 0
    /\ marks = 0

IngInit == IngStart /\ processed_file = <<>>

\* the Reflector after construction, whatever the upload directories hold
ReflectorStart ==
    /\ now = 0
    /\ uploads = 0
    /\ queue = [d \in Dests |-> [n \in Names |-> NoFile]]
    /\ tmp = [d \in Dests |-> {}]
    /\ quarantine = {}
    /\ quarantine_dir \in BOOLEAN
    /\ can_hardlink \in {[dir \in Dirs |-> b] : b \in BOOLEAN}
    /\ validated_inodes = {}
    /\ corrupt_inodes = [i \in Inodes |-> -1]
    /\ inconclusive_inodes = [i \in Inodes |-> 0]
    /\ pc = "wait"
    /\ tbz_files = <<>>
    /\ cur = NoPath
    /\ destIdx = 0
    /\ success_count = 0
    /\ faults = 0
    /\ stop_event = FALSE
    /\ wpc = [d \in Dests |-> "wait"]
    /\ queued_count = [d \in Dests |-> 0]
    /\ free_percent = [d \in Dests |-> NoProbe]
    /\ curFile = NoFile
    /\ outcome = [d \in Dests |-> "none"]
    /\ drained = [d \in Dests |-> {}]
    /\ purged = [d \in Dests |-> {}]
    /\ accepted = [p \in Paths |-> {}]
    /\ res = [p \in Paths |-> NoResult]
    /\ validations = [p \in Paths |-> 0]
    /\ everCorrupt = {}
    /\ skips = [i \in Inodes |-> 0]

\* the Reflector started on empty upload directories
ReflectorInit == ReflectorStart /\ upload = [p \in Paths |-> NoFile]

\* the BatchLoader before its first run: no state file
LoaderInit ==
    /\ state_file = NoState
    /\ args = NoArgs
    /\ lpc = "idle"
    /\ tar_files = <<>>
    /\ completed = {}
    /\ grand_tbz = 0
    /\ idx = 0
    /\ tar_tbz = 0
    /\ spots_buf = 0
    /\ noise_buf = 0
    /\ tbz_limit_hit = FALSE
    /\ lfaults = 0
    /\ runs = 0
    /\ run_tbz = 0
    /\ failed_insert = FALSE
    /\ unread = FALSE
    /\ opened = {}

\* no spot file is being parsed
SpotInit ==
    /\ sp_prog = "ingester"
    /\ sp_file = <<>>
    /\ sp_pc = "idle"
    /\ sp_line = 0
    /\ sp_spots = <<>>
    /\ sp_records = <<>>
    /\ sp_inserted = <<>>
    /\ sp_dropped = FALSE

\* no noise file is being read
NoiseInit ==
    /\ nz_prog = "ingester"
    /\ nz_files = <<>>
    /\ nz_idx = 0
    /\ nz_records = <<>>

\* no grid is being converted
NoLatLon == [lat |-> 0, lon |-> 0]
GridInit ==
    /\ gr_in = <<>>
    /\ gr_out = NoLatLon
    /\ gr_pc = "idle"

\* no copy under way
CopyInit == cp = "none"

AuxInit == CopyInit /\ dir_order = <<>>

TextInit == SpotInit /\ NoiseInit /\ GridInit /\ AuxInit

\* the programs before their first cycle, the Ingester inserting, no tars
Init ==
    /\ ReflectorInit /\ IngInit /\ dry_run = FALSE /\ LoaderInit /\ tars = NoTars
    /\ TextInit

\* for comparison: threads that never see the event set
is_set_Never == FALSE

\* stop_event.is_set(), as the Scanner and the workers poll it
is_set == stop_event

\* the observers forget a path's file when it leaves the upload directory
AcceptedWithout(p) == [accepted EXCEPT ![p] = {}]

\* ------------------------------------------------------------ environment
\* one second passes
Tick(limit) ==
    /\ UNCHANGED <<threadVars, ingVars, ingHist, ldVars, textVars>>
    /\ now < limit
    /\ now' = now + 1
    /\ UNCHANGED <<uploads, upload, queue, tmp, quarantine, cfgVars, cacheVars,
                   pc, tbz_files, passVars, faults, drained, purged, fileHist,
                   res, skips>>

\* a client finishes writing a bundle into an upload directory; the transfer
\* may keep the modification time the file had on the client
Upload(p, kind, ino, mtime, limit) ==
    /\ UNCHANGED <<threadVars, ingVars, ingHist, ldVars, textVars>>
    /\ uploads < limit
    /\ upload[p] = NoFile
    /\ ino \notin InodesInUse
    /\ uploads' = uploads + 1
    /\ upload' = [upload EXCEPT ![p] = [kind |-> kind, ino |-> ino,
                                        mtime |-> mtime, dir |-> SourceDir(p)]]
    /\ UNCHANGED <<now, queue, tmp, quarantine, cfgVars, cacheVars, pc,
                   tbz_files, passVars, faults, drained, purged, fileHist, res,
                   skips>>

\* another party (the uploading client, an operator) removes a bundle
ExternalRemove(p) ==
    /\ UNCHANGED <<threadVars, ingVars, ingHist, ldVars, textVars>>
    /\ upload[p] # NoFile
    /\ upload' = [upload EXCEPT ![p] = NoFile]
    /\ accepted' = AcceptedWithout(p)
    /\ validations' = [validations EXCEPT ![p] = 0]
    /\ everCorrupt' = everCorrupt \ {p}
    /\ UNCHANGED <<now, uploads, queue, tmp, quarantine, cfgVars, cacheVars, pc,
                   tbz_files, passVars, faults, drained, purged, res, skips>>

\* ------------------------------------------------------------ QueueManager
\* for comparison: a purge that takes any queue
Largest_Any(q) == Dests

\* the queues get_queue_sizes reports with the most .tbz files; max() takes
\* the first of them in directory order, which is not specified
Largest(q) ==
    {d \in Dests : \A e \in Dests : QueueCount(q, e) <= QueueCount(q, d)}

\* for comparison: a purge that takes any k files of queue d
OldestSets_Any(q, d, k) ==
    {T \in SUBSET Present(q[d]) : Cardinality(T) = k}

\* purge_from_largest_queue, files.sort(key=mtime) and files[:k]: the k
\* files of queue d that come first when sorted by mtime (ties in
\* directory order, which is not specified)
OldestSets(q, d, k) ==
    {T \in SUBSET Present(q[d]) :
        /\ Cardinality(T) = k
        /\ \A x \in T, y \in Present(q[d]) \ T : q[d][x].mtime <= q[d][y].mtime}

\* for comparison: a purge that ignores queue_purge_batch
to_delete_All(q, d) == QueueCount(q, d)

\* purge_from_largest_queue: min(self.batch_size, len(files))
to_delete(q, d) == Min(queue_purge_batch, QueueCount(q, d))

NoPurge(q) == [q |-> q, d |-> 0, gone |-> {}, failed |-> FALSE]

\* for comparison: a purge that removes nothing
purge_from_largest_queue_Nothing(q, mayFail) == {NoPurge(q)}

\* the possible results of one call: the queues afterwards, the queue chosen,
\* the names unlinked, and whether an unlink failed (mayFail: a failure may
\* be injected)
purge_from_largest_queue(q, mayFail) ==
    IF \A d \in Dests : QueueCount(q, d) = 0
    THEN {NoPurge(q)}
    ELSE UNION {UNION {
            {[q |-> [q EXCEPT ![d] = [n \in Names |->
                                        IF n \in R THEN NoFile ELSE q[d][n]]],
              d |-> d, gone |-> R, failed |-> R # T] :
                R \in IF mayFail THEN SUBSET T ELSE {T}} :
            T \in OldestSets(q, d, to_delete(q, d))} :
         d \in Largest(q)}

\* check_and_purge_if_needed: purges when the rate limit has passed and the
\* local disk is above local_max_used_percent (the disk is outside the
\* model: with pressure, either may be the case)
check_and_purge_if_needed(q, pressure, mayFail) ==
    {NoPurge(q)}
    \cup (IF pressure THEN purge_from_largest_queue(q, mayFail) ELSE {})

\* the observers' account of a purge result o
PurgedAfter(pg, o) ==
    IF o.d = 0 THEN pg ELSE [pg EXCEPT ![o.d] = @ \cup o.gone]
DrainedAfterPurge(dr, o) ==
    IF o.d = 0 THEN dr ELSE [dr EXCEPT ![o.d] = @ \ o.gone]
FaultCost(o) == IF o.failed THEN 1 ELSE 0

\* ----------------------------------------------------------------- Scanner
\* the orders in which scandir may list the files of a set
Orderings(S) ==
    {s \in [1..Cardinality(S) -> S] :
        \A i, j \in 1..Cardinality(S) : i # j => s[i] # s[j]}

\* matches_pattern(filename, self.delete_patterns)
matches_pattern_Never(filename, patterns) == FALSE
matches_pattern(filename, patterns) == filename \in patterns

\* the first loop of scan_and_queue takes a listed file into tbz_files
Collects(p) ==
    /\ ~matches_pattern(FileName(p), delete_patterns)
    /\ FileName(p) \in TbzNames

\* the files of the first user's upload directory
OneUser == {p \in Paths : SourceDir(p) = "u1"}

\* the bundles the first user's client uploads: names that end in .tbz and
\* match no delete pattern
Bundle == {p \in OneUser : FileName(p) \in TbzNames \ delete_patterns}

\* the position in listing s at which the first loop stops: the file that
\* fills tbz_files up to max_files_per_scan, else the end of the listing
Collected(s, i) == Cardinality({j \in 1..i : Collects(s[j])})
BreakAt(s) ==
    IF Collected(s, Len(s)) < max_files_per_scan THEN Len(s)
    ELSE CHOOSE i \in 1..Len(s) :
            Collects(s[i]) /\ Collected(s, i) = max_files_per_scan

\* what the first loop does with listing s: the .tbz files it collects and
\* the files it unlinks because they match a delete pattern
ScanOf(s) ==
    [files |-> SelectSeq(SubSeq(s, 1, BreakAt(s)), Collects),
     unwanted |-> {s[i] : i \in {j \in 1..BreakAt(s) :
                      matches_pattern(FileName(s[j]), delete_patterns)}}]

\* the outcomes of the first loop of one scan
Listing == {ScanOf(s) : s \in Orderings({p \in Paths : upload[p] # NoFile})}

\* the unlinks of unwanted files that may fail in one scan
UnlinkFailures(F, unwanted, spent) ==
    {K \in SUBSET unwanted :
        Cardinality(K) <= (IF "unwanted" \in F THEN MaxFaults - spent ELSE 0)}

Deleted == [r |-> "deleted", failed |-> {}]
DeleteFailed == [r |-> "deletefail", failed |-> {}]

\* scan_and_queue up to the loop over tbz_files
scan_and_queue(F) ==
    /\ pc = "wait"
    /\ ~is_set
    /\ UNCHANGED <<threadVars, ingVars, ingHist, ldVars, textVars>>
    /\ \E o \in check_and_purge_if_needed(queue, "pressure" \in F,
                                           MayFail(F, "purge")),
          sc \in Listing :
        /\ queue' = o.q
        /\ purged' = PurgedAfter([d \in Dests |-> {}], o)
        /\ drained' = [d \in Dests |-> {}]
        /\ \E kept \in UnlinkFailures(F, sc.unwanted, faults + FaultCost(o)) :
             /\ faults' = faults + FaultCost(o) + Cardinality(kept)
             /\ upload' = [p \in Paths |->
                             IF p \in sc.unwanted \ kept THEN NoFile
                             ELSE upload[p]]
             /\ res' = [p \in Paths |->
                          IF p \in kept THEN DeleteFailed
                          ELSE IF p \in sc.unwanted THEN Deleted
                          ELSE NoResult]
        /\ tbz_files' = sc.files
        /\ pc' = IF sc.files = <<>> THEN "wait" ELSE "handle"
    /\ UNCHANGED <<now, uploads, tmp, quarantine, cfgVars, cacheVars,
                   passVars, fileHist, skips>>


\* where scan_and_queue goes after a file: the next one, or the end of cycle
AfterFile(rest) == IF rest = <<>> THEN "wait" ELSE "handle"

\* for comparison: a Scanner that waits until a file is strictly older
OldEnough_Strict(p) == get_file_age(p) > min_age_seconds

\* handle_tbz_file: age >= min_age
OldEnough(p) == ~(get_file_age(p) < min_age_seconds)

\* for comparison: a corrupt file kept until strictly older
CorruptOldEnough_Strict(first_seen) ==
    now - first_seen > corrupt_min_age_seconds

\* handle_tbz_file: time_known_corrupt >= corrupt_min_age
CorruptOldEnough(first_seen) == now - first_seen >= corrupt_min_age_seconds

\* for comparison: a back-off that never waits
RetryNotDue_Never(retry_count) == FALSE

\* for comparison: a back-off that waits one cycle longer
RetryNotDue_Inclusive(retry_count) == retry_count <= RetryCycles

\* handle_tbz_file: retry_count < 100, only count this cycle
RetryNotDue(retry_count) == retry_count < RetryCycles

\* validate_tbz_file: tar tf reports a readable archive valid and a damaged
\* one corrupt; a timeout or another error is inconclusive ("hung": an
\* archive on which tar tf times out every time)
validate_tbz_file(f, mayFail) ==
    IF f.kind = "hung" THEN {"inconclusive"}
    ELSE (IF f.kind = "good" THEN {"valid"} ELSE {"corrupt"})
         \cup (IF mayFail THEN {"inconclusive"} ELSE {})

\* handle_tbz_file returns without touching the file
SkipFile(rest) ==
    /\ tbz_files' = rest
    /\ pc' = AfterFile(rest)
    /\ UNCHANGED <<upload, quarantine, passVars>>

\* process_file up to its loop over the destinations
StartPass(p, rest) ==
    /\ tbz_files' = rest
    /\ pc' = "fanout"
    /\ cur' = p
    /\ destIdx' = 1
    /\ success_count' = 0
    /\ curFile' = upload[p]
    /\ outcome' = [d \in Dests |-> "none"]
    /\ UNCHANGED <<upload, quarantine>>

\* delete_corrupt_file: move to quarantine_dir when set, unlink otherwise;
\* a failure is logged and swallowed
delete_corrupt_file(p, F) ==
    \/ /\ upload' = [upload EXCEPT ![p] = NoFile]
       /\ quarantine' = IF quarantine_dir THEN quarantine \cup {upload[p]}
                        ELSE quarantine
       /\ accepted' = AcceptedWithout(p)
       /\ validations' = [validations EXCEPT ![p] = 0]
       /\ everCorrupt' = everCorrupt \ {p}
       /\ faults' = faults
    \/ /\ MayFail(F, "delete")
       /\ faults' = faults + 1
       /\ UNCHANGED <<upload, quarantine, fileHist>>

\* handle_tbz_file, inode in corrupt_inodes
HandleCorrupt(p, rest, inode, F) ==
    /\ IF CorruptOldEnough(corrupt_inodes[inode])
       THEN /\ delete_corrupt_file(p, F)
            /\ corrupt_inodes' = [corrupt_inodes EXCEPT ![inode] = -1]
       ELSE UNCHANGED <<upload, quarantine, faults, corrupt_inodes, fileHist>>
    /\ tbz_files' = rest
    /\ pc' = AfterFile(rest)
    /\ UNCHANGED <<validated_inodes, inconclusive_inodes, passVars, skips>>

\* handle_tbz_file from "Validate the file" on; an inconclusive entry whose
\* back-off has run out has been deleted before
Validate(p, rest, inode, F) ==
    \E v \in validate_tbz_file(upload[p], MayFail(F, "timeout")) :
        /\ validations' = [validations EXCEPT ![p] = Min(@ + 1, MaxValidations)]
        /\ accepted' = accepted
        /\ CASE v = "valid" ->
                  /\ validated_inodes' = validated_inodes \cup {inode}
                  /\ inconclusive_inodes' =
                         [inconclusive_inodes EXCEPT ![inode] = 0]
                  /\ StartPass(p, rest)
                  /\ UNCHANGED <<corrupt_inodes, everCorrupt, faults, skips>>
             [] v = "corrupt" ->
                  /\ corrupt_inodes' = [corrupt_inodes EXCEPT ![inode] = now]
                  /\ inconclusive_inodes' =
                         [inconclusive_inodes EXCEPT ![inode] = 0]
                  /\ skips' = [skips EXCEPT ![inode] = 0]
                  /\ everCorrupt' = everCorrupt \cup {p}
                  /\ SkipFile(rest)
                  /\ UNCHANGED <<validated_inodes, faults>>
             [] v = "inconclusive" ->
                  /\ inconclusive_inodes' =
                         [inconclusive_inodes EXCEPT ![inode] = 1]
                  /\ skips' = [skips EXCEPT ![inode] = 0]
                  /\ faults' = IF upload[p].kind = "hung" THEN faults
                               ELSE faults + 1
                  /\ SkipFile(rest)
                  /\ UNCHANGED <<validated_inodes, corrupt_inodes, everCorrupt>>

\* handle_tbz_file on the next file of the cycle; the poll of the stop event
\* at the head of the loop iteration and the handling it lets through are
\* one step
handle_tbz_file(F) ==
    /\ pc = "handle"
    /\ ~is_set
    /\ UNCHANGED <<threadVars, ingVars, ingHist, ldVars, textVars>>
    /\ LET p == Head(tbz_files)
           rest == Tail(tbz_files)
           inode == get_file_inode(p)
       IN  IF ~OldEnough(p) \/ inode = 0
           THEN /\ SkipFile(rest)
                /\ UNCHANGED <<cacheVars, fileHist, skips, faults>>
           ELSE IF inode \in validated_inodes
           THEN /\ StartPass(p, rest)
                /\ UNCHANGED <<cacheVars, fileHist, skips, faults>>
           ELSE IF corrupt_inodes[inode] # -1
           THEN HandleCorrupt(p, rest, inode, F)
           ELSE IF /\ inconclusive_inodes[inode] # 0
                   /\ RetryNotDue(inconclusive_inodes[inode])
           THEN /\ inconclusive_inodes' =
                       [inconclusive_inodes EXCEPT ![inode] = @ + 1]
                /\ skips' = [skips EXCEPT ![inode] = @ + 1]
                /\ SkipFile(rest)
                /\ UNCHANGED <<validated_inodes, corrupt_inodes, fileHist,
                               faults>>
           ELSE Validate(p, rest, inode, F)
    /\ UNCHANGED <<now, uploads, queue, tmp, cfgVars, drained, purged, res>>

\* for comparison: a process_file without the final_path.exists() test
AlreadyQueued_Never(d, name) == FALSE

\* process_file: final_path.exists()
AlreadyQueued(d, name) == queue[d][name] # NoFile

\* what os.link, or shutil.copy2 and rename, can do for one destination:
\* succeed when the source is there, fail with ENOENT when it is gone, and
\* fail with ENOSPC or another OSError when a failure is injected
PlaceResults(F) ==
    (IF upload[cur] # NoFile THEN {"placed"} ELSE {"failed"})
    \cup (IF MayFail(F, "place") THEN {"failed", "enospc"} ELSE {})

PlaceCost(r) ==
    IF r = "placed" \/ (r = "failed" /\ upload[cur] = NoFile) THEN 0 ELSE 1

\* the .tmp files of queue d after a failed attempt: the finally clause
\* unlinks temp_path and swallows a failure of that unlink; only the copy
\* path writes a temp file
TmpAfterFailure(d, name, F) ==
    {tmp[d] \ {name}}
    \cup (IF ~can_hardlink[SourceDir(cur)] /\ MayFail(F, "tmp")
          THEN {tmp[d] \cup {name}} ELSE {})

\* for comparison: a process_file that counts a destination after its purge
CountsAsSuccess_AfterPurge(r) == r \in {"placed", "enospc"}

\* process_file: success_count += 1 after the link or the copy and rename
CountsAsSuccess(r) == r = "placed"

\* for comparison: a process_file whose loop ends at the first failure
NextDest_StopOnFailure(d, r) ==
    IF r \in {"failed", "enospc"} THEN NumDests + 1 ELSE d + 1

\* process_file: the loop goes on to the next destination whatever happened
NextDest(d, r) == d + 1

\* process_file: one iteration of the loop over dest_names
process_dest(F) ==
    /\ UNCHANGED <<threadVars, ingVars, ingHist, ldVars, textVars>>
    /\ pc = "fanout"
    /\ destIdx <= NumDests
    /\ LET d == destIdx
           name == FileName(cur)
       IN  IF AlreadyQueued(d, name)
           THEN /\ success_count' = success_count + 1
                /\ outcome' = [outcome EXCEPT ![d] = "exists"]
                /\ destIdx' = NextDest(d, "exists")
                /\ UNCHANGED <<queue, tmp, faults, drained, purged, accepted>>
           ELSE \E r \in PlaceResults(F) :
                /\ outcome' = [outcome EXCEPT ![d] = r]
                /\ destIdx' = NextDest(d, r)
                /\ success_count' = IF CountsAsSuccess(r)
                                    THEN success_count + 1 ELSE success_count
                /\ CASE r = "placed" ->
                          /\ queue' = [queue EXCEPT ![d][name] = upload[cur]]
                          /\ tmp' = [tmp EXCEPT ![d] = @ \ {name}]
                          /\ accepted' = [accepted EXCEPT ![cur] = @ \cup {d}]
                          /\ drained' = [drained EXCEPT ![d] = @ \ {name}]
                          /\ purged' = [purged EXCEPT ![d] = @ \ {name}]
                          /\ faults' = faults
                     [] r = "failed" ->
                          /\ \E t \in TmpAfterFailure(d, name, F) :
                                /\ tmp' = [tmp EXCEPT ![d] = t]
                                /\ faults' = IF PlaceCost(r) = 1 \/ name \in t
                                             THEN faults + 1 ELSE faults
                          /\ UNCHANGED <<queue, drained, purged, accepted>>
                     [] r = "enospc" ->
                          /\ \E t \in TmpAfterFailure(d, name, F) :
                             \E o \in purge_from_largest_queue(queue,
                                       "purge" \in F /\ faults + 1 < MaxFaults) :
                                /\ tmp' = [tmp EXCEPT ![d] = t]
                                /\ queue' = o.q
                                /\ purged' = PurgedAfter(purged, o)
                                /\ drained' = DrainedAfterPurge(drained, o)
                                /\ faults' = faults + 1 + FaultCost(o)
                          /\ UNCHANGED accepted
    /\ UNCHANGED <<now, uploads, upload, quarantine, cfgVars, cacheVars, pc,
                   tbz_files, cur, curFile, res, validations, everCorrupt,
                   skips>>

\* for comparison: a process_file that unlinks once any destination counted
AllSucceeded_SomeDest == success_count >= 1

\* process_file: success_count == total_dests
AllSucceeded == success_count = NumDests

\* the observers' record of how a pass ended for the file it was started for
PassResult(r) ==
    [r |-> IF upload[cur] = curFile THEN r ELSE "gone",
     failed |-> {d \in Dests : outcome[d] \notin {"exists", "placed"}}]

\* process_file after the loop: drop the inode from the caches and unlink
\* the source when every destination was counted, keep it otherwise
finish_pass(F) ==
    /\ UNCHANGED <<threadVars, ingVars, ingHist, ldVars, textVars>>
    /\ pc = "fanout"
    /\ destIdx > NumDests
    /\ IF AllSucceeded
       THEN LET inode == get_file_inode(cur) IN
            /\ validated_inodes' = validated_inodes \ {inode}
            /\ corrupt_inodes' = [i \in Inodes |->
                                    IF i = inode THEN -1 ELSE corrupt_inodes[i]]
            /\ inconclusive_inodes' =
                   [i \in Inodes |->
                      IF i = inode THEN 0 ELSE inconclusive_inodes[i]]
            /\ skips' = [i \in Inodes |-> IF i = inode THEN 0 ELSE skips[i]]
            /\ \/ /\ upload[cur] # NoFile
                  /\ upload' = [upload EXCEPT ![cur] = NoFile]
                  /\ faults' = faults
                  /\ res' = [res EXCEPT ![cur] = PassResult("unlinked")]
                  /\ accepted' = AcceptedWithout(cur)
                  /\ validations' = [validations EXCEPT ![cur] = 0]
                  /\ everCorrupt' = everCorrupt \ {cur}
               \/ /\ upload[cur] # NoFile
                  /\ MayFail(F, "unlink")
                  /\ faults' = faults + 1
                  /\ res' = [res EXCEPT ![cur] = PassResult("unlinkfail")]
                  /\ UNCHANGED <<upload, fileHist>>
               \/ /\ upload[cur] = NoFile
                  /\ res' = [res EXCEPT ![cur] = PassResult("gone")]
                  /\ UNCHANGED <<upload, faults, fileHist>>
       ELSE /\ res' = [res EXCEPT ![cur] = PassResult("kept")]
            /\ UNCHANGED <<cacheVars, upload, faults, fileHist, skips>>
    /\ pc' = AfterFile(tbz_files)
    /\ cur' = NoPath
    /\ destIdx' = 0
    /\ success_count' = 0
    /\ curFile' = NoFile
    /\ outcome' = [d \in Dests |-> "none"]
    /\ UNCHANGED <<now, uploads, queue, tmp, quarantine, cfgVars, tbz_files,
                   drained, purged>>

\* ------------------------------------------------------------- RsyncWorker
\* check_remote_free_space: None (-1) on timeout or error, else the free
\* percentage; one value below the threshold, one at it
ProbeResults == {-1, min_free_space_percent - 1, min_free_space_percent}

\* for comparison: a worker that transfers when the probe has failed
ProbeOK_Optimistic(fp) == fp = -1 \/ ~(fp < min_free_space_percent)

\* sync_files: free_percent is not None and not below min_free_percent
ProbeOK(fp) == fp # -1 /\ ~(fp < min_free_space_percent)

\* sync_files of destination d's worker: rsync --remove-source-files removes
\* each file it has transferred; a run that fails or times out may have
\* transferred some of them
sync_files(d) ==
    /\ ~is_set
    /\ wpc[d] = "wait"
    /\ UNCHANGED <<threadVars, ingVars, ingHist, ldVars, textVars>>
    /\ Cardinality(CountedEntries(d)) > 0
    /\ \E fp \in ProbeResults, T \in SUBSET Transferable(d) :
        LET S == FinalNamesIn(T) IN
        /\ ~ProbeOK(fp) => T = {}
        /\ queue' = [queue EXCEPT ![d] = [n \in Names |->
                                            IF n \in S THEN NoFile ELSE @[n]]]
        /\ tmp' = [tmp EXCEPT ![d] = @ \ TmpNamesIn(T)]
        /\ drained' = [drained EXCEPT ![d] = @ \cup S]
        /\ purged' = [purged EXCEPT ![d] = @ \ S]
    /\ UNCHANGED <<now, uploads, upload, quarantine, cfgVars, cacheVars,
                   pc, tbz_files, passVars, faults, fileHist, res, skips>>

\* sync_files up to the probe: nothing to do while the queue is empty
sync_begin(d) ==
    /\ UNCHANGED <<ingVars, ingHist, ldVars, textVars>>
    /\ wpc[d] = "wait"
    /\ ~is_set
    /\ Cardinality(CountedEntries(d)) > 0
    /\ wpc' = [wpc EXCEPT ![d] = "probe"]
    /\ queued_count' = [queued_count EXCEPT ![d] = Cardinality(CountedEntries(d))]
    /\ UNCHANGED <<now, uploads, upload, queue, tmp, quarantine, cfgVars,
                   cacheVars, pc, tbz_files, passVars, faults, stop_event,
                   free_percent, drained, purged, fileHist, res, skips>>

\* sync_files: check_remote_free_space returns, and the cycle is skipped
\* unless the probe is good
sync_probe(d) ==
    /\ UNCHANGED <<ingVars, ingHist, ldVars, textVars>>
    /\ wpc[d] = "probe"
    /\ \E fp \in ProbeResults :
          IF ProbeOK(fp)
          THEN /\ wpc' = [wpc EXCEPT ![d] = "rsync"]
               /\ free_percent' = [free_percent EXCEPT ![d] = fp]
               /\ UNCHANGED queued_count
          ELSE /\ wpc' = [wpc EXCEPT ![d] = "wait"]
               /\ queued_count' = [queued_count EXCEPT ![d] = 0]
               /\ UNCHANGED free_percent
    /\ UNCHANGED <<now, uploads, upload, queue, tmp, quarantine, cfgVars,
                   cacheVars, pc, tbz_files, passVars, faults, stop_event,
                   drained, purged, fileHist, res, skips>>

\* sync_files: the rsync subprocess returns; it has removed the files it
\* transferred, all or (on failure or timeout) some of those in the queue
sync_rsync(d) ==
    /\ UNCHANGED <<ingVars, ingHist, ldVars, textVars>>
    /\ wpc[d] = "rsync"
    /\ \E T \in SUBSET Transferable(d) :
        LET S == FinalNamesIn(T) IN
        /\ queue' = [queue EXCEPT ![d] = [n \in Names |->
                                            IF n \in S THEN NoFile ELSE @[n]]]
        /\ tmp' = [tmp EXCEPT ![d] = @ \ TmpNamesIn(T)]
        /\ drained' = [drained EXCEPT ![d] = @ \cup S]
        /\ purged' = [purged EXCEPT ![d] = @ \ S]
    /\ wpc' = [wpc EXCEPT ![d] = "wait"]
    /\ queued_count' = [queued_count EXCEPT ![d] = 0]
    /\ free_percent' = [free_percent EXCEPT ![d] = NoProbe]
    /\ UNCHANGED <<now, uploads, upload, quarantine, cfgVars, cacheVars,
                   pc, tbz_files, passVars, faults, stop_event, fileHist, res,
                   skips>>

\* RsyncWorker.run: the loop ends when the event is found set
worker_exit(d) ==
    /\ UNCHANGED <<ingVars, ingHist, ldVars, textVars>>
    /\ wpc[d] = "wait"
    /\ is_set
    /\ wpc' = [wpc EXCEPT ![d] = "stopped"]
    /\ UNCHANGED <<now, uploads, upload, queue, tmp, quarantine, cfgVars,
                   cacheVars, pc, tbz_files, passVars, faults, stop_event,
                   queued_count, free_percent, histVars>>

\* ------------------------------------------------------------------- main
\* signal_handler, or the finally clause of main: stop_event.set()
signal_handler ==
    /\ UNCHANGED <<ingVars, ingHist, ldVars, textVars>>
    /\ ~stop_event
    /\ stop_event' = TRUE
    /\ UNCHANGED <<now, uploads, upload, queue, tmp, quarantine, cfgVars,
                   cacheVars, pc, tbz_files, passVars, faults, workerVars,
                   histVars>>

\* FileScanner.run and scan_and_queue: the event is found set between two
\* files or between two cycles; the rest of the cycle is dropped
scanner_exit ==
    /\ UNCHANGED <<ingVars, ingHist, ldVars, textVars>>
    /\ pc \in {"wait", "handle"}
    /\ is_set
    /\ pc' = "stopped"
    /\ tbz_files' = <<>>
    /\ UNCHANGED <<now, uploads, upload, queue, tmp, quarantine, cfgVars,
                   cacheVars, passVars, faults, threadVars, histVars>>

\* --------------------------------------------------------- specifications
\* Fan-out: readable bundles and conclusive validations; link, copy,
\* temp-file, purge and source-unlink failures, disk pressure, the workers
FanoutFaults == {"place", "tmp", "purge", "unlink", "pressure"}
FanoutUploads == 2

\* modification times of bundles that are old enough when they arrive, each
\* with a time of its own
OldTimes == {now - min_age_seconds - uploads}

InitFanout == Init /\ ~quarantine_dir

NextFanout ==
    \/ \E p \in Bundle, ino \in FreeInode, mtime \in OldTimes :
          Upload(p, "good", ino, mtime, FanoutUploads)
    \/ scan_and_queue(FanoutFaults)
    \/ handle_tbz_file(FanoutFaults)
    \/ process_dest(FanoutFaults)
    \/ finish_pass(FanoutFaults)
    \/ \E d \in Dests : sync_files(d)

SpecFanout == InitFanout /\ [][NextFanout]_vars

\* Threads: the Scanner with readable bundles and no failing system call,
\* the workers step by step (count, probe, rsync), and the stop event
ThreadUploads == 2

InitThreads == Init /\ ~quarantine_dir /\ \A dir \in Dirs : can_hardlink[dir]

ScannerNext ==
    \/ scan_and_queue({})
    \/ handle_tbz_file({})
    \/ process_dest({})
    \/ finish_pass({})
    \/ scanner_exit

WorkerNext(d) ==
    \/ sync_begin(d)
    \/ sync_probe(d)
    \/ sync_rsync(d)
    \/ worker_exit(d)

NextThreads ==
    \/ \E p \in Bundle, ino \in FreeInode, mtime \in OldTimes :
          Upload(p, "good", ino, mtime, ThreadUploads)
    \/ signal_handler
    \/ ScannerNext
    \/ \E d \in Dests : WorkerNext(d)

SpecThreads == InitThreads /\ [][NextThreads]_vars

\* the threads are scheduled, and every external call returns (each has a
\* timeout)
SpecThreadsFair ==
    /\ SpecThreads
    /\ WF_vars(ScannerNext)
    /\ \A d \in Dests : WF_vars(WorkerNext(d))

\* ------------------------------------------------------- the Ingester
\* (src/wsprdaemon_server.py, main): one cycle finds the bundles, loads the
\* memo, removes the bundles already memoized and takes the others in
\* sorted order through extract, insert_spots, insert_noise,
\* mark_tbz_processed and unlink
MaxIngestFaults == 3   \* failing inserts injected
MaxEvents == 3         \* deliveries, interruptions and failing file operations

BundleOrder == <<"x.tbz", "y.tbz">>

InIncoming(b) == incoming[b] # NoBundle
find_tbz_files == SelectSeq(BundleOrder, InIncoming)

SeqRange(q) == {q[i] : i \in 1..Len(q)}

\* load_processed_set: the lines of the memo, nothing when it cannot be read
load_processed_set(readable) == IF readable THEN SeqRange(processed_file) ELSE {}

is_tbz_processed(b, pset) == b \in pset

LastN(q, n) == SubSeq(q, Len(q) - n + 1, Len(q))

\* the entries mark_tbz_processed writes: the entries read (none when the
\* read fails) with the pathname appended, cut to the newest 75% when
\* they take more than max_processed_file_size bytes
KeepCount(n) == IF (3 * n) \div 4 < 1 THEN 1 ELSE (3 * n) \div 4
MarkedEntries(b, readable) ==
    LET entries == (IF readable THEN processed_file ELSE <<>>) \o <<b>>
    IN  IF Len(entries) * EntrySize > max_processed_file_size
        THEN LastN(entries, KeepCount(Len(entries)))
        ELSE entries

\* processed_file.exists()
memo_exists == processed_file # <<>>

\* for comparison: a cycle that looks every bundle up in the file on disk
ReadsOfLoad_PerBundle == IF memo_exists THEN Len(find_tbz_files) ELSE 0

\* the times load_processed_set and mark_tbz_processed open the memo to read
ReadsOfLoad == IF memo_exists THEN 1 ELSE 0
ReadsOfMark == IF memo_exists THEN 1 ELSE 0

\* reading the memo can fail only when the file exists
MemoRead == {TRUE} \cup (IF processed_file = <<>> THEN {} ELSE {FALSE})

\* n more inserts fail / n more file operations fail
IFault(n) == ifaults + n <= MaxIngestFaults /\ ifaults' = ifaults + n
Delivered == deliveries["x.tbz"] + deliveries["y.tbz"]
Events == Delivered + restarts + ffaults
FFault(n) == Events + n <= MaxEvents /\ ffaults' = ffaults + n
Failed(ok) == IF ok THEN 0 ELSE 1

\* the for loop moves on to the next unprocessed bundle, or the cycle ends
NextBundle ==
    /\ unprocessed' = Tail(unprocessed)
    /\ ipc' = IF Tail(unprocessed) = <<>> THEN "sleep" ELSE "extract"
    /\ attempt' = 0

\* the retry loops: range(max_retries), the last attempt is max_retries - 1
LastAttempt == attempt >= max_retries - 1

\* "if not success: continue"
GiveUp_FallThrough ==
    /\ ipc' = "mark"
    /\ attempt' = 0
    /\ UNCHANGED unprocessed
GiveUp == NextBundle

\* the stage after the spots of bundle c are in
AfterSpots(c) == IF c.noise > 0 /\ ~dry_run THEN "noise" ELSE "mark"

\* extract_tbz returns True
ExtractOK_Always(c) == TRUE
ExtractOK(c) == c.ok

\* the uploader puts a bundle into the incoming directory
Deliver(b, c) ==
    /\ Events < MaxEvents
    /\ ~InIncoming(b)
    /\ incoming' = [incoming EXCEPT ![b] = c]
    /\ deliveries' = [deliveries EXCEPT ![b] = @ + 1]
    /\ UNCHANGED <<processed_file, processed_set, ipc, unprocessed, attempt,
                   dry_run, ifaults, ffaults, restarts>>
    /\ UNCHANGED <<ldVars, textVars, reflectorVars, ingHist>>

\* main, top of the while loop: find the bundles, load the memo once, split
\* into unprocessed and zombies, unlink every zombie (a failing unlink is
\* logged and ignored)
cycle_start ==
    /\ ipc = "sleep"
    /\ find_tbz_files # <<>>
    /\ \E readable \in MemoRead :
         LET pset == load_processed_set(readable)
             zombies == {b \in Bundles : InIncoming(b) /\ is_tbz_processed(b, pset)}
         IN  \E kept \in SUBSET zombies :
               /\ FFault(Failed(readable) + Cardinality(kept))
               /\ processed_set' = pset
               /\ unprocessed' = SelectSeq(find_tbz_files,
                                    LAMBDA b : ~is_tbz_processed(b, pset))
               /\ incoming' = [b \in Bundles |->
                                 IF b \in zombies \ kept THEN NoBundle
                                 ELSE incoming[b]]
               /\ ipc' = IF unprocessed' = <<>> THEN "sleep" ELSE "extract"
    /\ attempt' = 0
    /\ tries' = NoTries /\ stage_ok' = {} /\ skipped' = {}
    /\ memo_reads' = ReadsOfLoad /\ marks' = 0
    /\ UNCHANGED <<processed_file, dry_run, ifaults, deliveries, restarts>>
    /\ UNCHANGED <<ldVars, textVars, reflectorVars, cumHist>>

\* main, one bundle: extract_tbz; a bundle that cannot be extracted is
\* unlinked (a failing unlink is logged and ignored) and the loop continues
extract_tbz ==
    /\ ipc = "extract"
    /\ LET b == Head(unprocessed)
           c == incoming[b]
       IN  IF ~ExtractOK(c)
           THEN /\ \E unlinked \in BOOLEAN :
                     /\ FFault(Failed(unlinked))
                     /\ incoming' = [incoming EXCEPT
                                       ![b] = IF unlinked THEN NoBundle ELSE @]
                /\ NextBundle
           ELSE /\ ipc' = IF c.spots > 0 /\ ~dry_run THEN "spots"
                          ELSE AfterSpots(c)
                /\ attempt' = 0
                /\ UNCHANGED <<incoming, unprocessed, ffaults>>
    /\ tries' = NoTries /\ stage_ok' = {}
    /\ UNCHANGED <<processed_file, processed_set, dry_run, ifaults,
                   deliveries, restarts>>
    /\ UNCHANGED <<ldVars, textVars, reflectorVars, cumHist, skipped,
                   memo_reads, marks>>

\* main, one attempt of the spots retry loop: insert_spots converts every
\* spot and returns False when a conversion raises, then inserts the
\* sub-batches in order and returns False at the first that fails; after
\* max_retries failures the bundle is skipped
insert_spots ==
    /\ ipc = "spots"
    /\ LET b == Head(unprocessed)
           c == incoming[b]
       IN  /\ tries' = [tries EXCEPT !.spots = @ + 1]
           /\ \/ /\ ~c.convertible
                 /\ IF LastAttempt
                    THEN GiveUp /\ skipped' = skipped \cup {b}
                    ELSE /\ attempt' = attempt + 1
                         /\ UNCHANGED <<ipc, unprocessed, skipped>>
                 /\ UNCHANGED <<spots_done, stage_ok, ifaults, partial_rows>>
              \/ /\ c.convertible
                 /\ spots_done' = [spots_done EXCEPT ![b] = @ + 1]
                 /\ stage_ok' = stage_ok \cup {"spots"}
                 /\ ipc' = AfterSpots(c)
                 /\ attempt' = 0
                 /\ UNCHANGED <<unprocessed, ifaults, partial_rows, skipped>>
              \/ \E k \in 1..c.spots :
                   /\ c.convertible
                   /\ IFault(1)
                   /\ partial_rows' = [partial_rows EXCEPT ![b] = @ + (k - 1)]
                   /\ IF LastAttempt
                      THEN GiveUp /\ skipped' = skipped \cup {b}
                      ELSE /\ attempt' = attempt + 1
                           /\ UNCHANGED <<ipc, unprocessed, skipped>>
                   /\ UNCHANGED <<spots_done, stage_ok>>
    /\ UNCHANGED <<incoming, processed_file, processed_set, dry_run, ffaults,
                   deliveries, restarts>>
    /\ UNCHANGED <<ldVars, textVars, reflectorVars, noise_done, memoed,
                   memo_reads, marks>>

\* main, one attempt of the noise retry loop
insert_noise ==
    /\ ipc = "noise"
    /\ LET b == Head(unprocessed)
       IN  /\ tries' = [tries EXCEPT !.noise = @ + 1]
           /\ \/ /\ noise_done' = [noise_done EXCEPT ![b] = @ + 1]
                 /\ stage_ok' = stage_ok \cup {"noise"}
                 /\ ipc' = "mark"
                 /\ attempt' = 0
                 /\ UNCHANGED <<unprocessed, ifaults, skipped>>
              \/ /\ IFault(1)
                 /\ IF LastAttempt
                    THEN GiveUp /\ skipped' = skipped \cup {b}
                    ELSE /\ attempt' = attempt + 1
                         /\ UNCHANGED <<ipc, unprocessed, skipped>>
                 /\ UNCHANGED <<noise_done, stage_ok>>
    /\ UNCHANGED <<incoming, processed_file, processed_set, dry_run, ffaults,
                   deliveries, restarts>>
    /\ UNCHANGED <<ldVars, textVars, reflectorVars, spots_done, partial_rows,
                   memoed, memo_reads, marks>>

\* main, end of one bundle: nothing in dry-run mode, otherwise
\* mark_tbz_processed (failures to read and to write the memo are logged
\* and ignored)
mark_tbz_processed ==
    /\ ipc = "mark"
    /\ IF dry_run
       THEN /\ NextBundle
            /\ UNCHANGED <<processed_file, ffaults, memoed, memo_reads, marks>>
       ELSE /\ \E readable \in MemoRead, writable \in BOOLEAN :
                 /\ FFault(Failed(readable) + Failed(writable))
                 /\ processed_file' =
                       IF writable
                       THEN MarkedEntries(Head(unprocessed), readable)
                       ELSE processed_file
            /\ memoed' = memoed \cup {Head(unprocessed)}
            /\ memo_reads' = memo_reads + ReadsOfMark
            /\ marks' = marks + 1
            /\ ipc' = "unlink"
            /\ UNCHANGED <<unprocessed, attempt>>
    /\ UNCHANGED <<incoming, processed_set, dry_run, ifaults, deliveries,
                   restarts>>
    /\ UNCHANGED <<ldVars, textVars, reflectorVars, spots_done, partial_rows,
                   noise_done, tries, stage_ok, skipped>>

\* main, end of one bundle: tbz_file.unlink() (a failure is logged and
\* ignored)
unlink_tbz ==
    /\ ipc = "unlink"
    /\ \E unlinked \in BOOLEAN :
         /\ FFault(Failed(unlinked))
         /\ incoming' = [incoming EXCEPT
                           ![Head(unprocessed)] = IF unlinked THEN NoBundle ELSE @]
    /\ NextBundle
    /\ UNCHANGED <<processed_file, processed_set, dry_run, ifaults,
                   deliveries, restarts>>
    /\ UNCHANGED <<ldVars, textVars, reflectorVars, ingHist>>

\* the Ingester is interrupted anywhere in a cycle and started again
restart ==
    /\ Events < MaxEvents
    /\ ipc # "sleep"
    /\ restarts' = restarts + 1
    /\ ipc' = "sleep"
    /\ unprocessed' = <<>>
    /\ processed_set' = {}
    /\ attempt' = 0
    /\ tries' = NoTries /\ stage_ok' = {} /\ skipped' = {}
    /\ memo_reads' = 0 /\ marks' = 0
    /\ UNCHANGED <<incoming, processed_file, dry_run, ifaults, ffaults,
                   deliveries>>
    /\ UNCHANGED <<ldVars, textVars, reflectorVars, cumHist>>

InitIngest ==
    /\ ReflectorInit /\ ~quarantine_dir /\ \A dir \in Dirs : can_hardlink[dir]
    /\ IngInit
    /\ LoaderInit /\ tars = NoTars
    /\ dry_run \in BOOLEAN
    /\ TextInit

NextIngest ==
    \/ \E b \in Bundles, c \in Contents : Deliver(b, c)
    \/ cycle_start
    \/ extract_tbz
    \/ insert_spots
    \/ insert_noise
    \/ mark_tbz_processed
    \/ unlink_tbz
    \/ restart

SpecIngest == InitIngest /\ [][NextIngest]_vars

\* Loop mode without --dry-run and a store that accepts every insert call:
\* the Ingester's steps without a failing client.insert, bundles with spots
\* of any date, failing file operations, interruptions
InitAccepting == InitIngest /\ ~dry_run

\* one step of the while loop of main
IngesterNext ==
    \/ cycle_start
    \/ extract_tbz
    \/ insert_spots
    \/ insert_noise
    \/ mark_tbz_processed
    \/ unlink_tbz

\* the same with every client.insert accepted
AcceptingNext == IngesterNext /\ ifaults' = ifaults

NextAccepting ==
    \/ \E b \in Bundles, c \in Contents \cup BadDates : Deliver(b, c)
    \/ AcceptingNext
    \/ restart

SpecAccepting == InitAccepting /\ [][NextAccepting]_vars

\* the loop of main runs on, and the process is started again after an
\* interruption
SpecAcceptingFair == SpecAccepting /\ WF_vars(AcceptingNext)

\* mark_tbz_processed applied to the memo files an earlier run can have
\* left: up to MemoLen pathnames of bundles handled before
MemoLen == 2
OldBundles == {"v.tbz", "w.tbz"}
OldMemos == UNION {[1..n -> OldBundles] : n \in 0..MemoLen}

InitMemo ==
    /\ ReflectorInit /\ ~quarantine_dir /\ \A dir \in Dirs : can_hardlink[dir]
    /\ IngStart /\ processed_file \in OldMemos
    /\ LoaderInit /\ tars = NoTars
    /\ dry_run = FALSE
    /\ TextInit

NextMemo ==
    \/ \E b \in Bundles, c \in Contents : Deliver(b, c)
    \/ AcceptingNext

SpecMemo == InitMemo /\ [][NextMemo]_vars

\* ----------------------------------------------------- the BatchLoader
\* (src/tar-bulk-loader.py, main): one run loads the state file, goes through
\* the tars in sorted order, skips the completed ones, reads the inner tbz
\* files of each other tar into two buffers that are flushed at batch_size
\* and at the end of the tar, and saves the state after each tar
MaxInner == 2        \* inner members of one tar
MaxLimit == 2        \* --limit values 0..MaxLimit
MaxRuns == 2         \* runs of the BatchLoader
MaxLoadFaults == 2   \* failing inserts, tar opens and state file accesses

\* the member lists a tar can have
RECURSIVE MemberSeqs(_)
MemberSeqs(n) ==
    IF n = 0 THEN {<<>>}
    ELSE MemberSeqs(n - 1)
         \cup {Append(q, k) : q \in {m \in MemberSeqs(n - 1) : Len(m) = n - 1},
                              k \in MemberKinds}

ArgSets == [limit : 0..MaxLimit, reset : BOOLEAN, dry_run : BOOLEAN]

LFault(n) == lfaults + n <= MaxLoadFaults /\ lfaults' = lfaults + n

\* load_state: the saved state, the default state when the file is absent
\* or cannot be read or parsed
DefaultState == [completed_tars |-> {}, total_tbz |-> 0]
load_state(readable) ==
    IF state_file # NoState /\ readable THEN state_file ELSE DefaultState
StateRead == {TRUE} \cup (IF state_file = NoState THEN {} ELSE {FALSE})

\* "state = {} if args.reset else load_state(args.state_file)"
LoadedState(a, readable) == IF a.reset THEN DefaultState ELSE load_state(readable)

\* "if args.limit and grand_tbz + tar_tbz >= args.limit"
LimitReached(n) == args.limit > 0 /\ grand_tbz + n >= args.limit

\* "if not tbz_limit_hit: completed.add(tar_name)"
MarksComplete == ~tbz_limit_hit

\* "if tar_name in completed: continue"
IsCompleted(t) == t \in completed

\* insert_batch can return False only when it calls client.insert
CanFail(n) == n > 0 /\ ~args.dry_run
InsertResults(n) == {TRUE} \cup (IF CanFail(n) THEN {FALSE} ELSE {})

\* main, before the for loop: the tars found, the state loaded
run_start(a) ==
    /\ lpc = "idle"
    /\ runs < MaxRuns
    /\ runs' = runs + 1
    /\ args' = a
    /\ \E readable \in (IF a.reset THEN {TRUE} ELSE StateRead) :
         /\ LFault(Failed(readable))
         /\ completed' = LoadedState(a, readable).completed_tars
         /\ grand_tbz' = LoadedState(a, readable).total_tbz
    /\ tar_files' = TarOrder
    /\ lpc' = "tar"
    /\ run_tbz' = 0
    /\ opened' = {}
    /\ UNCHANGED <<tars, state_file, tarVars, failed_insert, unread>>
    /\ UNCHANGED <<reflectorVars, ingVars, ingHist, textVars>>

\* main, top of "for tar_path in tar_files": the run ends after the last
\* tar; a completed tar is skipped; a tar that cannot be opened is skipped
\* without saving the state
tar_begin ==
    /\ lpc = "tar"
    /\ IF tar_files = <<>>
       THEN /\ lpc' = "idle"
            /\ UNCHANGED <<tar_files, tarVars, lfaults, failed_insert, unread,
                           opened>>
       ELSE IF IsCompleted(Head(tar_files))
       THEN /\ tar_files' = Tail(tar_files)
            /\ UNCHANGED <<lpc, tarVars, lfaults, failed_insert, unread, opened>>
       ELSE \E opens \in BOOLEAN :
              /\ LFault(Failed(opens))
              /\ idx' = 0 /\ tar_tbz' = 0 /\ spots_buf' = 0 /\ noise_buf' = 0
              /\ tbz_limit_hit' = FALSE
              /\ failed_insert' = FALSE /\ unread' = FALSE
              /\ IF opens
                 THEN /\ lpc' = "member"
                      /\ opened' = opened \cup {Head(tar_files)}
                      /\ UNCHANGED tar_files
                 ELSE /\ tar_files' = Tail(tar_files)
                      /\ UNCHANGED <<lpc, opened>>
    /\ UNCHANGED <<tars, state_file, args, completed, grand_tbz, runs, run_tbz>>
    /\ UNCHANGED <<reflectorVars, ingVars, ingHist, textVars>>

\* main, one turn of "for idx, member in enumerate(members, 1)": read the
\* member (continue when it cannot be read), parse it into the buffers,
\* check the limit, flush the spots buffer and then the noise buffer when
\* they have reached batch_size; a failed flush breaks out of the loop
member_step ==
    /\ lpc = "member"
    /\ LET t == Head(tar_files)
       IN  IF idx = Len(tars[t])
           THEN /\ lpc' = "end"
                /\ UNCHANGED <<tarVars, lfaults, ldHist>>
           ELSE /\ idx' = idx + 1
                /\ IF tars[t][idx + 1] = "unreadable"
                   THEN /\ unread' = TRUE
                        /\ UNCHANGED <<lpc, tar_tbz, spots_buf, noise_buf,
                                       tbz_limit_hit, lfaults, run_tbz,
                                       failed_insert, opened>>
                   ELSE /\ tar_tbz' = tar_tbz + 1
                        /\ run_tbz' = run_tbz + 1
                        /\ IF LimitReached(tar_tbz + 1)
                           THEN /\ tbz_limit_hit' = TRUE
                                /\ spots_buf' = spots_buf + 1
                                /\ noise_buf' = noise_buf + 1
                                /\ lpc' = "end"
                                /\ UNCHANGED <<lfaults, failed_insert>>
                           ELSE /\ UNCHANGED tbz_limit_hit
                                /\ IF spots_buf + 1 < batch_size
                                   THEN /\ spots_buf' = spots_buf + 1
                                        /\ noise_buf' = noise_buf + 1
                                        /\ UNCHANGED <<lpc, lfaults, failed_insert>>
                                   ELSE \E sok \in InsertResults(spots_buf + 1),
                                           nok \in InsertResults(noise_buf + 1) :
                                          /\ LFault(Failed(sok)
                                                    + (IF sok THEN Failed(nok) ELSE 0))
                                          /\ failed_insert' =
                                                (failed_insert \/ ~sok \/ ~nok)
                                          /\ spots_buf' = IF sok THEN 0
                                                          ELSE spots_buf + 1
                                          /\ noise_buf' = IF sok /\ nok THEN 0
                                                          ELSE noise_buf + 1
                                          /\ lpc' = IF sok /\ nok THEN "member"
                                                    ELSE "end"
                        /\ UNCHANGED <<unread, opened>>
    /\ UNCHANGED <<tars, state_file, args, tar_files, completed, grand_tbz, runs>>
    /\ UNCHANGED <<reflectorVars, ingVars, ingHist, textVars>>

\* main, after the members of a tar: flush what is left in the buffers (the
\* results are not looked at), add the counts, mark the tar complete unless
\* the limit was hit, save the state (a failure is logged and ignored), and
\* leave the loop when the limit was hit
tar_end ==
    /\ lpc = "end"
    /\ \E sok \in InsertResults(spots_buf), nok \in InsertResults(noise_buf),
          saved \in BOOLEAN :
         /\ LFault(Failed(sok) + Failed(nok) + Failed(saved))
         /\ failed_insert' = (failed_insert \/ ~sok \/ ~nok)
         /\ grand_tbz' = grand_tbz + tar_tbz
         /\ completed' = IF MarksComplete
                         THEN completed \cup {Head(tar_files)}
                         ELSE completed
         /\ state_file' = IF saved
                          THEN [completed_tars |-> completed',
                                total_tbz |-> grand_tbz']
                          ELSE state_file
    /\ IF tbz_limit_hit
       THEN lpc' = "idle" /\ UNCHANGED tar_files
       ELSE lpc' = "tar" /\ tar_files' = Tail(tar_files)
    /\ UNCHANGED <<tars, args, tarVars, runs, run_tbz, unread, opened>>
    /\ UNCHANGED <<reflectorVars, ingVars, ingHist, textVars>>

InitLoader ==
    /\ ReflectorInit /\ ~quarantine_dir /\ \A dir \in Dirs : can_hardlink[dir]
    /\ IngInit /\ dry_run = FALSE
    /\ LoaderInit
    /\ tars \in [TarNames -> MemberSeqs(MaxInner) \ {<<>>}]
    /\ TextInit

NextLoader ==
    \/ \E a \in ArgSets : run_start(a)
    \/ tar_begin
    \/ member_step
    \/ tar_end

SpecLoader == InitLoader /\ [][NextLoader]_vars

\* ------------------------------------------------------- spot files
\* A spot file is a sequence of lines and a line the sequence of its
\* whitespace-separated tokens.  The Ingester parses it with
\* parse_wsprd_output and converts the spots inside insert_spots; the
\* BatchLoader parses it with parse_wsprd_output_lines and converts each spot
\* in process_tbz_in_memory before the records are inserted.
NumFields == 34
MaxExtra == 1      \* tokens of a line beyond the 34 fields

\* tokens: a date, a time, an integer, a decimal, text, the text 'none', an
\* infinity (float('inf') succeeds, int of it raises OverflowError) and a
\* date with month 13
SpotTokens == {"250101", "1200", "7", "1.5", "abc", "none", "inf", "251301"}

\* parts[] indexes (from 1) by what the parser does with them
TextFields == {1, 2, 7, 8, 22, 23}
FloatFields == {3, 5, 6, 19, 20} \cup (25..32)
IntFields == (1..NumFields) \ (TextFields \cup FloatFields)

\* values: a string, a number in tenths, or the float infinity
Str(x) == [s |-> x, n |-> 0]
Num(n) == [s |-> "", n |-> n]
Inf == [s |-> "inf", n |-> 0]
Raised(e) == [s |-> e, n |-> -1]
\* x * 1_000_000.0 of a number x in tenths: n * 10^5 whole units
Mega(n) == [s |-> "e5", n |-> n]

\* float(t), in tenths; raises ValueError for text
float(t) ==
    CASE t = "7" -> Num(70)
      [] t = "1.5" -> Num(15)
      [] t = "1200" -> Num(12000)
      [] t = "250101" -> Num(2501010)
      [] t = "251301" -> Num(2513010)
      [] t = "inf" -> Inf
      [] OTHER -> Raised("ValueError")

\* int(x) of a float x: truncation to a whole number, kept in tenths;
\* OverflowError for the infinity
int(x) ==
    IF x = Inf THEN Raised("OverflowError")
    ELSE IF x.n < 0 THEN x
    ELSE Num((x.n \div 10) * 10)

\* the value the parser stores for parts[i - 1] = t, or the exception raised
FieldValue(i, t) ==
    IF i = 8 THEN (IF t = "none" THEN Str("") ELSE Str(t))
    ELSE IF i \in TextFields THEN Str(t)
    ELSE IF i = 6 THEN (IF float(t).n < 0 \/ float(t) = Inf THEN float(t)
                        ELSE Mega(float(t).n))
    ELSE IF i \in FloatFields THEN float(t)
    ELSE int(float(t))
FieldError(i, t) == IF FieldValue(i, t).n < 0 THEN FieldValue(i, t).s ELSE "none"

NoSpot == <<>>
\* one line through parse_wsprd_output / parse_wsprd_output_lines: "short"
\* (fewer than 34 tokens), "spot" with the dict built from parts[0..33], or
\* the exception of the first field that raises
ParseFields(parts) ==
    LET errs == {i \in 1..NumFields : FieldError(i, parts[i]) # "none"}
        first == CHOOSE i \in errs : \A j \in errs : i <= j
    IN IF errs = {}
       THEN [r |-> "spot",
             spot |-> [i \in 1..NumFields |-> FieldValue(i, parts[i])]]
       ELSE [r |-> FieldError(first, parts[first]), spot |-> NoSpot]
ParseLine_Exactly(parts) ==
    IF Len(parts) # NumFields THEN [r |-> "short", spot |-> NoSpot]
    ELSE ParseFields(parts)
ParseLine(parts) ==
    IF Len(parts) < NumFields THEN [r |-> "short", spot |-> NoSpot]
    ELSE ParseFields(parts)

\* convert_spot_to_clickhouse: datetime(year, month, day, hour, minute) from
\* the slices of date and time, int(freq_hz) and freq_hz / 1_000_000.0;
\* "none" or the exception
ConvertError(spot) ==
    IF spot[1].s # "250101" \/ spot[2].s # "1200" THEN "ValueError"
    ELSE IF spot[6] = Inf THEN "OverflowError"
    ELSE "none"
convert_spot_to_clickhouse(spot) ==
    [time |-> <<2025, 1, 1, 12, 0>>,
     frequency |-> Mega(spot[6].n),
     frequency_mhz |-> Num(spot[6].n),
     spot |-> spot]

\* a line of n tokens, well-formed but for token t at position k
Template(i) ==
    IF i = 1 THEN "250101"
    ELSE IF i = 2 THEN "1200"
    ELSE IF i \in TextFields THEN "abc"
    ELSE IF i \in FloatFields THEN "1.5"
    ELSE "7"
Line(n, k, t) == [i \in 1..n |-> IF i = k THEN t ELSE Template(i)]
GoodLine == Line(NumFields, 0, "7")
SpotLines ==
    {Line(n, k, t) : n \in (NumFields - 1)..(NumFields + MaxExtra),
                      k \in 0..(NumFields + MaxExtra), t \in SpotTokens}
\* files of two lines, one of them well-formed
SpotFiles == {<<l, GoodLine>> : l \in SpotLines} \cup {<<GoodLine, l>> : l \in SpotLines}

\* the step after the last line of the file
AfterParse(spots) ==
    IF sp_prog = "loader" /\ spots # <<>> THEN "convert" ELSE "insert"

\* one iteration of the loop over the lines
parse_wsprd_output ==
    /\ sp_pc = "parse"
    /\ sp_line < Len(sp_file)
    /\ LET p == ParseLine(sp_file[sp_line + 1])
           last == sp_line + 1 = Len(sp_file)
       IN CASE p.r = "spot" ->
                 /\ sp_spots' = Append(sp_spots, p.spot)
                 /\ sp_line' = sp_line + 1
                 /\ sp_pc' = IF last THEN AfterParse(sp_spots') ELSE "parse"
                 /\ UNCHANGED sp_dropped
            [] p.r \in {"short", "ValueError"} ->
                 \* continue
                 /\ sp_line' = sp_line + 1
                 /\ sp_pc' = IF last THEN AfterParse(sp_spots) ELSE "parse"
                 /\ UNCHANGED <<sp_spots, sp_dropped>>
            [] OTHER ->
                 \* not a ValueError or IndexError: the Ingester's outer
                 \* except ends the file and returns the spots so far, the
                 \* BatchLoader's exception leaves parse_wsprd_output_lines
                 \* and ends process_tbz_in_memory
                 /\ sp_spots' = IF sp_prog = "loader" THEN <<>> ELSE sp_spots
                 /\ sp_pc' = "insert"
                 /\ sp_dropped' = TRUE
                 /\ UNCHANGED sp_line
    /\ UNCHANGED <<sp_prog, sp_file, sp_records, sp_inserted>>
    /\ UNCHANGED <<reflectorVars, threadVars, ingVars, ingHist, ldVars, nzVars, gridVars, auxVars>>

\* BatchLoader: one iteration of 'for s in raw_spots', an exception ends
\* process_tbz_in_memory with the records so far
convert_raw_spot ==
    /\ sp_pc = "convert"
    /\ sp_prog = "loader"
    /\ sp_spots # <<>>
    /\ IF ConvertError(Head(sp_spots)) = "none"
       THEN /\ sp_records' = Append(sp_records,
                                    convert_spot_to_clickhouse(Head(sp_spots)))
            /\ sp_spots' = Tail(sp_spots)
            /\ sp_pc' = IF Tail(sp_spots) = <<>> THEN "insert" ELSE "convert"
            /\ UNCHANGED sp_dropped
       ELSE /\ sp_spots' = <<>>
            /\ sp_pc' = "insert"
            /\ sp_dropped' = TRUE
            /\ UNCHANGED sp_records
    /\ UNCHANGED <<sp_prog, sp_file, sp_line, sp_inserted>>
    /\ UNCHANGED <<reflectorVars, threadVars, ingVars, ingHist, ldVars, nzVars, gridVars, auxVars>>

\* BatchLoader: insert_batch of the records of the bundle, the database up
insert_batch ==
    /\ sp_pc = "insert"
    /\ sp_prog = "loader"
    /\ sp_inserted' = sp_inserted \o sp_records
    /\ sp_pc' = "done"
    /\ UNCHANGED <<sp_prog, sp_file, sp_line, sp_spots, sp_records, sp_dropped>>
    /\ UNCHANGED <<reflectorVars, threadVars, ingVars, ingHist, ldVars, nzVars, gridVars, auxVars>>

\* Ingester: the max_retries calls of insert_spots for the bundle, the
\* database up: every call converts all spots first, so that a spot whose
\* conversion raises makes every call return False
insert_parsed_spots ==
    /\ sp_pc = "insert"
    /\ sp_prog = "ingester"
    /\ IF \E i \in 1..Len(sp_spots) : ConvertError(sp_spots[i]) # "none"
       THEN /\ sp_dropped' = TRUE
            /\ UNCHANGED <<sp_records, sp_inserted>>
       ELSE /\ sp_records' = [i \in 1..Len(sp_spots) |->
                                 convert_spot_to_clickhouse(sp_spots[i])]
            /\ sp_inserted' = sp_inserted \o sp_records'
            /\ UNCHANGED sp_dropped
    /\ sp_pc' = "done"
    /\ UNCHANGED <<sp_prog, sp_file, sp_line, sp_spots>>
    /\ UNCHANGED <<reflectorVars, threadVars, ingVars, ingHist, ldVars, nzVars, gridVars, auxVars>>

InitSpots ==
    /\ ReflectorInit /\ ~quarantine_dir /\ \A dir \in Dirs : can_hardlink[dir]
    /\ IngInit /\ dry_run = FALSE
    /\ LoaderInit /\ tars = NoTars /\ AuxInit
    /\ sp_prog \in {"ingester", "loader"}
    /\ sp_file \in SpotFiles
    /\ sp_pc = "parse"
    /\ sp_line = 0
    /\ sp_spots = <<>>
    /\ sp_records = <<>>
    /\ sp_inserted = <<>>
    /\ sp_dropped = FALSE
    /\ NoiseInit /\ GridInit

NextSpots ==
    \/ parse_wsprd_output
    \/ convert_raw_spot
    \/ insert_batch
    \/ insert_parsed_spots

SpecSpots == InitSpots /\ [][NextSpots]_vars

\* ------------------------------------------------------- noise files
\* The noise files of a bundle, each the lines of its body and each line the
\* sequence of its tokens, through process_noise_files (Ingester) or the
\* noise branch of process_tbz_in_memory (BatchLoader).
NoiseFields == 15
MaxNoiseExtra == 1     \* tokens of a body beyond the 15 fields

\* integers beyond 32 bits are kept as hi * Word + lo with 0 <= lo < Word
Word == 65536
Big(hi, lo) == [hi |-> hi, lo |-> lo]
BigLE(a, b) == a.hi < b.hi \/ (a.hi = b.hi /\ a.lo <= b.lo)
BigMin(a, b) == IF BigLE(a, b) THEN a ELSE b
BigMax(a, b) == IF BigLE(a, b) THEN b ELSE a
Negate(a) == IF a.lo = 0 THEN Big(-a.hi, 0) ELSE Big(-a.hi - 1, Word - a.lo)
Int32Max == Big(32767, 65535)
Int32Min == Big(-32768, 0)

\* the tokens tried as field 14, the digits of their integer part and
\* their sign
OvTokens == {"0", "7", "1.5", "2147483647", "2147483648", "3000000000",
             "-2147483648", "-2147483649", "-3000000000", "abc", "inf"}
IntDigits(t) ==
    CASE t = "0" -> <<0>>
      [] t = "7" -> <<7>>
      [] t = "1.5" -> <<1>>
      [] t \in {"2147483647"} -> <<2, 1, 4, 7, 4, 8, 3, 6, 4, 7>>
      [] t \in {"2147483648", "-2147483648"} -> <<2, 1, 4, 7, 4, 8, 3, 6, 4, 8>>
      [] t = "-2147483649" -> <<2, 1, 4, 7, 4, 8, 3, 6, 4, 9>>
      [] t \in {"3000000000", "-3000000000"} -> <<3, 0, 0, 0, 0, 0, 0, 0, 0, 0>>
      [] OTHER -> <<>>
IsNegative(t) == t \in {"-2147483648", "-2147483649", "-3000000000"}

\* the value of a digit sequence
RECURSIVE DigitsValue(_)
DigitsValue(ds) ==
    IF ds = <<>> THEN Big(0, 0)
    ELSE LET v == DigitsValue(SubSeq(ds, 1, Len(ds) - 1))
             low == v.lo * 10 + ds[Len(ds)]
         IN Big(v.hi * 10 + low \div Word, low % Word)

\* int(float(t)): the exception, or the whole number
OvError(t) ==
    IF t = "inf" THEN "OverflowError"
    ELSE IF IntDigits(t) = <<>> THEN "ValueError"
    ELSE "none"
OvRaw(t) == IF IsNegative(t) THEN Negate(DigitsValue(IntDigits(t)))
            ELSE DigitsValue(IntDigits(t))
\* max(-2147483648, min(2147483647, ov_raw))
Clamp(v) == BigMax(Int32Min, BigMin(Int32Max, v))

\* content.split(): the tokens of all lines
RECURSIVE Split(_)
Split(body) == IF body = <<>> THEN <<>> ELSE Head(body) \o Split(Tail(body))

\* len(fields) != 15
HasNoiseFields_AtLeast(fields) == Len(fields) >= NoiseFields
HasNoiseFields(fields) == Len(fields) = NoiseFields

\* one noise file: the record appended to the list, or none
NoiseRecords(prog, body) ==
    LET fields == Split(body)
    IN IF ~HasNoiseFields(fields) THEN <<>>
       ELSE IF \/ float(fields[13]).n < 0
               \/ float(fields[14]).n < 0
               \/ OvError(fields[15]) # "none"
       THEN <<>>
       ELSE <<[rms_level |-> float(fields[13]),
               c2_level |-> float(fields[14]),
               ov |-> IF prog = "loader" THEN Clamp(OvRaw(fields[15]))
                      ELSE OvRaw(fields[15])]>>

\* a body of n tokens, rms and ov as given, broken into two lines after token
\* brk (one line when brk = 0)
NoiseTokens(n, rms, ov) ==
    [i \in 1..n |-> IF i = 13 THEN rms ELSE IF i = 15 THEN ov ELSE "1.5"]
NoiseBody(n, brk, rms, ov) ==
    IF brk = 0 THEN <<NoiseTokens(n, rms, ov)>>
    ELSE <<SubSeq(NoiseTokens(n, rms, ov), 1, brk),
           SubSeq(NoiseTokens(n, rms, ov), brk + 1, n)>>
GoodBody == NoiseBody(NoiseFields, 0, "1.5", "7")
NoiseBodies ==
    {<<>>} \cup
    {NoiseBody(n, brk, rms, ov) :
        n \in (NoiseFields - 1)..(NoiseFields + MaxNoiseExtra),
        brk \in 0..(NoiseFields - 2), rms \in {"1.5", "abc"}, ov \in OvTokens}
\* bundles of two noise files, one of them well-formed
NoiseBundles ==
    {<<b, GoodBody>> : b \in NoiseBodies} \cup {<<GoodBody, b>> : b \in NoiseBodies}

\* one iteration of the loop over the noise files
process_noise_files ==
    /\ nz_idx < Len(nz_files)
    /\ nz_idx' = nz_idx + 1
    /\ nz_records' = nz_records \o NoiseRecords(nz_prog, nz_files[nz_idx + 1])
    /\ UNCHANGED <<nz_prog, nz_files, spVars, gridVars, auxVars>>
    /\ UNCHANGED <<reflectorVars, threadVars, ingVars, ingHist, ldVars>>

InitNoise ==
    /\ ReflectorInit /\ ~quarantine_dir /\ \A dir \in Dirs : can_hardlink[dir]
    /\ IngInit /\ dry_run = FALSE
    /\ LoaderInit /\ tars = NoTars /\ AuxInit
    /\ SpotInit
    /\ nz_prog \in {"ingester", "loader"}
    /\ nz_files \in NoiseBundles
    /\ nz_idx = 0
    /\ nz_records = <<>>
    /\ GridInit

NextNoise == process_noise_files

SpecNoise == InitNoise /\ [][NextNoise]_vars

\* ------------------------------------------------------ Maidenhead grids
\* maidenhead_to_latlon of fix_grid_coordinates.py.  A grid is the sequence
\* of its characters; angles are whole numbers of 1/48 degree until they are
\* rounded, and thousandths of a degree afterwards.
MaxSuffix == 3     \* characters of a grid after its four field and square characters

FieldChars == {"A", "R", "S", "r", "1"}
SquareChars == {"0", "9", "a"}
SubChars == {"a", "l", "x", "y", "L", "7"}

\* ord(c)
ord(c) ==
    CASE c = "A" -> 65 [] c = "R" -> 82 [] c = "S" -> 83 [] c = "L" -> 76
      [] c = "a" -> 97 [] c = "l" -> 108 [] c = "r" -> 114 [] c = "x" -> 120
      [] c = "y" -> 121 [] c = "0" -> 48 [] c = "1" -> 49 [] c = "7" -> 55
      [] c = "9" -> 57
\* c.upper() and c.lower()
upper(c) == CASE c = "a" -> "A" [] c = "l" -> "L" [] c = "r" -> "R" [] OTHER -> c
lower(c) == CASE c = "L" -> "l" [] OTHER -> c
\* int(c) of one character: its value, or -1 for ValueError
DigitOf(c) == CASE c = "0" -> 0 [] c = "1" -> 1 [] c = "7" -> 7 [] c = "9" -> 9
                [] OTHER -> -1

\* round(x, 3) of x = u/48: thousandths, halves to the even neighbour
Round3(u) ==
    LET q == (u * 1000) \div 48
        r == (u * 1000) % 48
    IN IF r < 24 THEN q
       ELSE IF r > 24 THEN q + 1
       ELSE IF q % 2 = 0 THEN q ELSE q + 1

Sentinel == [lat |-> -999000, lon |-> -999000]

maidenhead_to_latlon(g) ==
    IF Len(g) < 4 THEN Sentinel
    ELSE LET grid == [i \in 1..Len(g) |-> IF i <= 2 THEN upper(g[i]) ELSE g[i]]
             lon0 == ((ord(grid[1]) - ord("A")) * 20 - 180) * 48
             lat0 == ((ord(grid[2]) - ord("A")) * 10 - 90) * 48
         IN IF DigitOf(grid[3]) < 0 \/ DigitOf(grid[4]) < 0 THEN Sentinel
            ELSE LET lon1 == lon0 + DigitOf(grid[3]) * 2 * 48
                     lat1 == lat0 + DigitOf(grid[4]) * 48
                 IN IF Len(grid) >= 6
                    THEN [lat |-> Round3(lat1 + (ord(lower(grid[6])) - ord("a")) * 2 + 1),
                          lon |-> Round3(lon1 + (ord(lower(grid[5])) - ord("a")) * 4 + 2)]
                    ELSE [lat |-> Round3(lat1 + 11 * 2 + 1),
                          lon |-> Round3(lon1 + 11 * 4 + 2)]

RECURSIVE Suffixes(_)
Suffixes(n) ==
    IF n = 0 THEN {<<>>}
    ELSE Suffixes(n - 1) \cup
         {Append(s, c) : s \in {t \in Suffixes(n - 1) : Len(t) = n - 1}, c \in SubChars}
\* the grids tried: too short, four characters, and longer ones
Grids ==
    {<<>>, <<"A">>, <<"A", "A", "0">>}
    \cup {<<a, b, c, d>> \o s : a \in FieldChars, b \in {"A", "R", "S"},
                                c \in SquareChars, d \in {"0", "9"},
                                s \in Suffixes(MaxSuffix)}

\* one call
convert_grid ==
    /\ gr_pc = "call"
    /\ gr_out' = maidenhead_to_latlon(gr_in)
    /\ gr_pc' = "returned"
    /\ UNCHANGED <<gr_in, spVars, nzVars, auxVars>>
    /\ UNCHANGED <<reflectorVars, threadVars, ingVars, ingHist, ldVars>>

InitGrid ==
    /\ ReflectorInit /\ ~quarantine_dir /\ \A dir \in Dirs : can_hardlink[dir]
    /\ IngInit /\ dry_run = FALSE
    /\ LoaderInit /\ tars = NoTars /\ AuxInit
    /\ SpotInit /\ NoiseInit
    /\ gr_in \in Grids
    /\ gr_out = NoLatLon
    /\ gr_pc = "call"

NextGrid == convert_grid

SpecGrid == InitGrid /\ [][NextGrid]_vars

\* Validation: readable and damaged bundles that arrive fresh, the clock,
\* validations that time out, failing deletes of corrupt files and failing
\* unlinks of the source
ValidateFaults == {"timeout", "delete", "unlink"}
ValidateUploads == 1
MaxTime == 2

NextValidate ==
    \/ Tick(MaxTime)
    \/ \E p \in Bundle, kind \in Kinds, ino \in FreeInode :
          Upload(p, kind, ino, now, ValidateUploads)
    \/ scan_and_queue(ValidateFaults)
    \/ handle_tbz_file(ValidateFaults)
    \/ process_dest(ValidateFaults)
    \/ finish_pass(ValidateFaults)

InitValidate == Init /\ \A dir \in Dirs : can_hardlink[dir]

SpecValidate == InitValidate /\ [][NextValidate]_vars

\* Validation caches: as above, and another party that removes bundles from
\* the upload directory at any moment
NextCache ==
    \/ Tick(MaxTime)
    \/ \E p \in Bundle, kind \in Kinds, ino \in FreeInode :
          Upload(p, kind, ino, now, ValidateUploads)
    \/ \E p \in Bundle : ExternalRemove(p)
    \/ scan_and_queue(ValidateFaults)
    \/ handle_tbz_file(ValidateFaults)
    \/ process_dest(ValidateFaults)
    \/ finish_pass(ValidateFaults)

SpecCache == InitValidate /\ [][NextCache]_vars

\* Inode reuse: bundles good and damaged, another party that removes bundles
\* from the upload directory, and later uploads that get the inode numbers
\* set free; no failing system call
ReuseUploads == 2

NextReuse ==
    \/ Tick(MaxTime)
    \/ \E p \in Bundle, kind \in Kinds, ino \in FreeInode :
          Upload(p, kind, ino, now, ReuseUploads)
    \/ \E p \in Bundle : ExternalRemove(p)
    \/ scan_and_queue({})
    \/ handle_tbz_file({})
    \/ process_dest({})
    \/ finish_pass({})

SpecReuse == Init /\ [][NextReuse]_vars

\* Unwanted files: bundles and files that match a delete pattern, readable
\* or damaged, fresh or old, the clock, failing unlinks of unwanted files
DeleteFaults == {"unwanted"}
DeleteUploads == 3

NextDelete ==
    \/ Tick(MaxTime)
    \/ \E p \in OneUser, kind \in Kinds, ino \in FreeInode,
          mtime \in {now} \cup OldTimes :
          Upload(p, kind, ino, mtime, DeleteUploads)
    \/ scan_and_queue(DeleteFaults)
    \/ handle_tbz_file(DeleteFaults)
    \/ process_dest(DeleteFaults)
    \/ finish_pass(DeleteFaults)

InitDelete == Init /\ ~quarantine_dir /\ \A dir \in Dirs : can_hardlink[dir]

SpecDelete == InitDelete /\ [][NextDelete]_vars

\* Two users: readable bundles with the same filenames in both upload
\* directories, no failing system call, the workers draining the queues
DirUploads == 3

\* the bundles the two users' clients upload
SameNamed == {p \in Paths : FileName(p) \in {"a.tbz", "b.tbz"}}

InitDirs == Init /\ ~quarantine_dir

NextDirs ==
    \/ \E p \in SameNamed, ino \in FreeInode, mtime \in OldTimes :
          Upload(p, "good", ino, mtime, DirUploads)
    \/ scan_and_queue({})
    \/ handle_tbz_file({})
    \/ process_dest({})
    \/ finish_pass({})
    \/ \E d \in Dests : sync_files(d)

SpecDirs == InitDirs /\ [][NextDirs]_vars

\* Copy: upload directories on another filesystem than the queues, so that
\* process_file copies; the copy of one bundle into one queue in the steps
\* the workers can see (temp file opened, temp file written, renamed), no
\* failing system call, the workers step by step
CopyUploads == 2

\* process_file, one iteration that does not copy: the file is queued already
process_exists ==
    /\ pc = "fanout"
    /\ destIdx <= NumDests
    /\ cp = "none"
    /\ AlreadyQueued(destIdx, FileName(cur))
    /\ process_dest({})

\* shutil.copy2(filepath, temp_path) has created temp_path and written a part
copy2_begin ==
    /\ pc = "fanout"
    /\ destIdx <= NumDests
    /\ cp = "none"
    /\ ~AlreadyQueued(destIdx, FileName(cur))
    /\ ~can_hardlink[SourceDir(cur)]
    /\ upload[cur] # NoFile
    /\ tmp' = [tmp EXCEPT ![destIdx] = @ \cup {FileName(cur)}]
    /\ cp' = "partial"
    /\ UNCHANGED <<now, uploads, upload, queue, quarantine, cfgVars, cacheVars,
                   pc, tbz_files, passVars, faults, threadVars, drained,
                   purged, fileHist, res, skips>>
    /\ UNCHANGED <<ingVars, ingHist, ldVars, spVars, nzVars, gridVars,
                   dir_order>>

\* shutil.copy2 returns: temp_path holds the whole bundle
copy2_end ==
    /\ cp = "partial"
    /\ cp' = "complete"
    /\ UNCHANGED <<reflectorVars, ingVars, ingHist, ldVars, spVars, nzVars,
                   gridVars, dir_order>>

\* temp_path.rename(final_path) and success_count += 1; a temp file that is
\* gone makes rename raise, which is logged
rename ==
    /\ cp = "complete"
    /\ cp' = "none"
    /\ LET d == destIdx
           name == FileName(cur)
           r == IF name \in tmp[d] THEN "placed" ELSE "failed"
       IN  /\ outcome' = [outcome EXCEPT ![d] = r]
           /\ destIdx' = NextDest(d, r)
           /\ success_count' = IF CountsAsSuccess(r)
                               THEN success_count + 1 ELSE success_count
           /\ IF r = "placed"
              THEN /\ queue' = [queue EXCEPT ![d][name] = curFile]
                   /\ tmp' = [tmp EXCEPT ![d] = @ \ {name}]
                   /\ accepted' = [accepted EXCEPT ![cur] = @ \cup {d}]
                   /\ drained' = [drained EXCEPT ![d] = @ \ {name}]
                   /\ purged' = [purged EXCEPT ![d] = @ \ {name}]
              ELSE UNCHANGED <<queue, tmp, accepted, drained, purged>>
    /\ UNCHANGED <<now, uploads, upload, quarantine, cfgVars, cacheVars, pc,
                   tbz_files, cur, curFile, faults, threadVars, res,
                   validations, everCorrupt, skips>>
    /\ UNCHANGED <<ingVars, ingHist, ldVars, spVars, nzVars, gridVars,
                   dir_order>>

InitCopy == Init /\ ~quarantine_dir /\ \A dir \in Dirs : ~can_hardlink[dir]

CopyScannerNext ==
    \/ scan_and_queue({})
    \/ handle_tbz_file({})
    \/ process_exists
    \/ copy2_begin
    \/ copy2_end
    \/ rename
    \/ finish_pass({})

CopyWorkerNext(d) ==
    \/ sync_begin(d)
    \/ sync_probe(d)
    \/ sync_rsync(d)

NextCopy ==
    \/ \E p \in Bundle, ino \in FreeInode, mtime \in OldTimes :
          Upload(p, "good", ino, mtime, CopyUploads)
    \/ CopyScannerNext
    \/ \E d \in Dests : CopyWorkerNext(d)

SpecCopy == InitCopy /\ [][NextCopy]_vars

\* Starvation: one user's upload directory holds bundles on which the
\* validation times out every time, another user's client uploads readable
\* bundles; the directories list their files in the same order at every
\* scan; no failing system call
StarveUploads == 2

\* the bundles of the first user and the bundle of the second
HungPaths == {p \in OneUser : Collects(p)}
GoodPaths == {p \in Paths \ OneUser : FileName(p) = "a.tbz"}

\* the files of the first user, there when the Reflector starts
HungFile(p) ==
    [kind |-> "hung", ino |-> IF FileName(p) = "a.tbz" THEN 1 ELSE 2,
     mtime |-> 0 - min_age_seconds, dir |-> SourceDir(p)]

InitStarve ==
    /\ ReflectorStart /\ ~quarantine_dir /\ \A dir \in Dirs : can_hardlink[dir]
    /\ upload = [p \in Paths |-> IF p \in HungPaths THEN HungFile(p) ELSE NoFile]
    /\ IngInit /\ dry_run = FALSE /\ LoaderInit /\ tars = NoTars
    /\ SpotInit /\ NoiseInit /\ GridInit /\ CopyInit
    /\ dir_order \in Orderings(HungPaths \cup GoodPaths)

\* scan_and_queue when os.scandir lists the files in dir_order
scan_in_order ==
    /\ scan_and_queue({})
    /\ tbz_files' =
          ScanOf(SelectSeq(dir_order, LAMBDA p : upload[p] # NoFile)).files

StarveScannerNext ==
    \/ scan_in_order
    \/ handle_tbz_file({})
    \/ process_dest({})
    \/ finish_pass({})

NextStarve ==
    \/ \E p \in GoodPaths, ino \in FreeInode, mtime \in OldTimes :
          Upload(p, "good", ino, mtime, StarveUploads)
    \/ StarveScannerNext

SpecStarve == InitStarve /\ [][NextStarve]_vars

\* the Scanner thread is scheduled and every call it makes returns
SpecStarveFair == SpecStarve /\ WF_vars(StarveScannerNext)

\* ------------------------------------------------- properties of the fan-out
\* the steps and states the properties speak of
PassEnds == pc = "fanout" /\ cur' = NoPath
PassOver == pc = "fanout" /\ destIdx > NumDests
Counted(d) == outcome[d] \in {"exists", "placed"}
Attempt(d) == pc = "fanout" /\ outcome[d] = "none" /\ outcome'[d] # "none"
Placing(d) == Attempt(d) /\ outcome'[d] = "placed"
EnospcAt(d) == Attempt(d) /\ outcome'[d] = "enospc"
Holds(d, name) == queue[d][name] # NoFile
Removed(q1, q2, d) == QueueCount(q1, d) - QueueCount(q2, d)

\* C1: the pass of process_file unlinks the source only if, in that same
\* pass, every configured destination was counted as success (its file was
\* already there, or was created by the hard link or the copy and rename);
\* in every other case the source stays where it is.
C1_UnlinkOnlyIfAllCounted ==
    [][PassEnds =>
         /\ (upload'[cur] # upload[cur]) =>
               /\ \A d \in Dests : Counted(d)
               /\ success_count = NumDests
         /\ (\E d \in Dests : ~Counted(d)) => upload' = upload]_vars

\* a pass has unlinked its source, and another has kept its source because a
\* destination failed
C1_Witness ==
    /\ \E p \in Paths : res[p].r = "unlinked"
    /\ \E p \in Paths : res[p].r = "kept" /\ upload[p] # NoFile

\* what the observers know of the last pass over path p in this cycle
SourceUnlinked(p) == res[p].r = "unlinked"
SourceRemains(p) == res[p].r \in {"kept", "unlinkfail"} /\ upload[p] # NoFile
GoneBy(d, name) == drained[d] \cup purged[d]

\* C2 (as stated): at the scan-cycle boundary after a pass over F exactly one
\* of two cases holds: (a) the source is unlinked and every destination's
\* queue holds the file or its worker has drained it; (b) the source remains
\* and some destination has neither the file nor a .tmp of it.
C2_ExactlyOneOfTwo ==
    pc = "wait" =>
      \A p \in Paths : res[p].r \in {"unlinked", "kept", "unlinkfail"} =>
         \/ /\ SourceUnlinked(p)
            /\ \A d \in Dests :
                  Holds(d, FileName(p)) \/ FileName(p) \in drained[d]
         \/ /\ SourceRemains(p)
            /\ \E d \in Dests :
                  ~Holds(d, FileName(p)) /\ FileName(p) \notin tmp[d]

\* C2 (amended): at the scan-cycle boundary after a pass over F exactly one
\* of three cases holds: (a) the source was unlinked, every destination was
\* counted, and each queue holds the file unless its worker or a purge has
\* removed it since; (b) the source remains, the pass did not count at least
\* one destination, and no such destination's queue holds the file; (c) the
\* source remains although every destination was counted, because the unlink
\* of the source failed.
C2_OneOfThree ==
    pc = "wait" =>
      \A p \in Paths :
         LET name == FileName(p)
             QueuedOrGone == \A d \in Dests :
                                Holds(d, name) \/ name \in GoneBy(d, name)
         IN  CASE res[p].r = "none" -> TRUE
               [] res[p].r = "unlinked" ->
                     res[p].failed = {} /\ QueuedOrGone
               [] res[p].r = "kept" ->
                     /\ upload[p] # NoFile
                     /\ res[p].failed # {}
                     /\ \A d \in res[p].failed : ~Holds(d, name)
               [] res[p].r = "unlinkfail" ->
                     /\ upload[p] # NoFile
                     /\ res[p].failed = {}
                     /\ QueuedOrGone
               [] OTHER -> FALSE

\* a cycle has ended with one source unlinked, its file drained from a queue,
\* and another source kept
C2_Witness ==
    /\ pc = "wait"
    /\ \E p \in Paths : /\ SourceUnlinked(p)
                         /\ \E d \in Dests : FileName(p) \in drained[d]
    /\ \E p \in Paths : res[p].r = "kept"

\* C3 (as stated): once a destination has accepted the bundle, no later cycle
\* links or copies the bundle into that destination again.
C3_NeverGivenTwice ==
    [][\A d \in Dests : Placing(d) => d \notin accepted[cur]]_vars

\* C3 (amended): a later cycle links or copies the bundle exactly for the
\* destinations whose queue does not hold a file of that name at that moment:
\* a destination that still holds it is counted without a link or copy, and
\* one that accepted it before is given it again only after its worker or a
\* purge has removed it.
C3_GivenOnlyWhereAbsent ==
    [][\A d \in Dests :
         /\ Placing(d) => ~Holds(d, FileName(cur))
         /\ (Attempt(d) /\ Holds(d, FileName(cur))) =>
               /\ outcome'[d] = "exists"
               /\ queue' = queue
               /\ success_count' = success_count + 1
         /\ (Attempt(d) /\ ~Holds(d, FileName(cur)))
               => outcome'[d] # "exists"]_vars

\* a later pass that skips a destination still holding the bundle and links
\* or copies for another one
C3_Witness ==
    /\ PassOver
    /\ \E d, e \in Dests :
          /\ outcome[d] = "exists" /\ Holds(d, FileName(cur))
          /\ outcome[e] = "placed"

\* C8 (as stated): when a destination fails in a pass, every destination
\* whose own link or copy does not fail has the file after the pass (or its
\* worker has drained it already).
C8_OthersHaveTheFile ==
    (PassOver /\ \E f \in Dests : outcome[f] \in {"failed", "enospc"}) =>
       \A d \in Dests : Counted(d) =>
          Holds(d, FileName(cur)) \/ FileName(cur) \in drained[d]

\* C8 (amended): a failure for one destination does not end the pass: every
\* destination is attempted, and every destination whose own link or copy
\* does not fail has the file after the pass unless its worker has drained it
\* or, when a failure was ENOSPC, the purge removed it.
C8_OthersAttempted ==
    PassOver =>
       \A d \in Dests :
          /\ outcome[d] # "none"
          /\ Counted(d) =>
                \/ Holds(d, FileName(cur))
                \/ FileName(cur) \in drained[d]
                \/ /\ FileName(cur) \in purged[d]
                   /\ \E f \in Dests : outcome[f] = "enospc"

\* a pass in which the first destination failed and a later one was given
\* the file
C8_Witness ==
    /\ PassOver
    /\ \E f, d \in Dests : /\ f < d
                            /\ outcome[f] \in {"failed", "enospc"}
                            /\ outcome[d] = "placed"
                            /\ Holds(d, FileName(cur))

\* C9: on ENOSPC for a destination the Scanner purges at once, does not count
\* the destination, does not try it again in the pass, still attempts the
\* remaining destinations, and leaves the source in place.
C9_EnospcPurgesKeepsSource ==
    [][/\ \A d \in Dests : EnospcAt(d) =>
             /\ success_count' = success_count
             /\ destIdx' = d + 1
             /\ upload' = upload
             /\ (faults' = faults + 1 /\ \E e \in Dests : QueueCount(queue, e) > 0)
                   => \E e \in Largest(queue) : Removed(queue, queue', e) >= 1
       /\ (pc = "fanout" /\ \E d \in Dests : outcome[d] = "enospc") =>
             /\ upload'[cur] = upload[cur]
             /\ success_count' < NumDests
             /\ \A d \in Dests : outcome[d] # "none" =>
                   (outcome'[d] = outcome[d] \/ PassEnds)
             /\ PassEnds => \A d \in Dests : outcome[d] # "none"]_vars

\* a pass whose first destination hit ENOSPC has gone on to give the file to
\* the next one and is over with the source in place
C9_Witness ==
    /\ PassOver
    /\ outcome[1] = "enospc" /\ outcome[NumDests] = "placed"
    /\ upload[cur] = curFile /\ curFile # NoFile
    /\ success_count < NumDests

\* C10 (as stated): every purge triggered by ENOSPC strictly decreases the
\* number of files in the largest queue, by at most queue_purge_batch.
C10_StrictDecrease ==
    [][\A d \in Dests : EnospcAt(d) =>
         \E e \in Largest(queue) :
            /\ Removed(queue, queue', e) >= 1
            /\ Removed(queue, queue', e) <= queue_purge_batch]_vars

\* C10 (amended): a purge triggered by ENOSPC removes files from one largest
\* queue only, at most queue_purge_batch of them: exactly
\* min(queue_purge_batch, n) of its n files when no unlink fails, which is a
\* strict decrease when n > 0 and nothing when every queue is empty.
C10_BoundedDecrease ==
    [][\A d \in Dests : EnospcAt(d) =>
         \E e \in Largest(queue) :
            /\ \A x \in Dests \ {e} : queue'[x] = queue[x]
            /\ \A n \in Names : queue'[e][n] \in {queue[e][n], NoFile}
            /\ Removed(queue, queue', e) <= queue_purge_batch
            /\ Removed(queue, queue', e) <= QueueCount(queue, e)
            /\ faults' = faults + 1 =>
                  Removed(queue, queue', e)
                     = Min(queue_purge_batch, QueueCount(queue, e))]_vars

\* the purge of a pass that hit ENOSPC has removed the file the pass had just
\* given to an earlier destination
C10_Witness ==
    /\ pc = "fanout"
    /\ \E d, e \in Dests : /\ e < d
                            /\ outcome[d] = "enospc"
                            /\ outcome[e] = "placed"
                            /\ FileName(cur) \in purged[e]
                            /\ ~Holds(e, FileName(cur))

AllExisted == \A d \in Dests : outcome[d] = "exists"

Handling(p) ==
    /\ pc = "handle"
    /\ Head(tbz_files) = p
    /\ tbz_files' = Tail(tbz_files)
    /\ upload[p] # NoFile
ValidatorRanOn(p) == validations'[p] > validations[p]
InodeOf(p) == upload[p].ino
HandlingCorrupt(p) ==
    /\ Handling(p)
    /\ OldEnough(p)
    /\ InodeOf(p) \notin validated_inodes
    /\ corrupt_inodes[InodeOf(p)] # -1
HandlingInconclusive(p) ==
    /\ Handling(p)
    /\ OldEnough(p)
    /\ InodeOf(p) \notin validated_inodes
    /\ corrupt_inodes[InodeOf(p)] = -1
    /\ inconclusive_inodes[InodeOf(p)] # 0

C5_CorruptNeverAgain ==
    [][/\ \A d \in Dests, n \in Names : queue[d][n].kind # "bad"
       /\ \A p \in everCorrupt : upload[p] # NoFile =>
             /\ ~ValidatorRanOn(p)
             /\ ~(cur # p /\ cur' = p)]_vars

\* C6 (as stated): a corrupt bundle stays while less than
\* corrupt_min_age_seconds have passed since it was recorded; the first cycle
\* at or after that time moves it to quarantine (when configured) or unlinks
\* it, and drops the corrupt_inodes entry.
C6_RemovedWhenOldEnough ==
    [][\A p \in Paths : HandlingCorrupt(p) =>
         IF now - corrupt_inodes[InodeOf(p)] < corrupt_min_age_seconds
         THEN upload' = upload /\ corrupt_inodes' = corrupt_inodes
         ELSE /\ upload'[p] = NoFile
              /\ quarantine' = IF quarantine_dir
                                THEN quarantine \cup {upload[p]} ELSE quarantine
              /\ corrupt_inodes'[InodeOf(p)] = -1]_vars

\* C6 (amended): a corrupt bundle stays while less than
\* corrupt_min_age_seconds have passed since it was recorded; the first cycle
\* at or after that time tries to move it to quarantine (when configured) or
\* to unlink it, and drops the corrupt_inodes entry whether or not that
\* succeeded: on failure the bundle stays without an entry.
C6_RemovalAttemptedWhenOldEnough ==
    [][\A p \in Paths :
         /\ HandlingCorrupt(p) =>
               IF now - corrupt_inodes[InodeOf(p)] < corrupt_min_age_seconds
               THEN upload' = upload /\ corrupt_inodes' = corrupt_inodes
               ELSE /\ corrupt_inodes'[InodeOf(p)] = -1
                    /\ \/ /\ upload'[p] = NoFile
                          /\ quarantine' = IF quarantine_dir
                                            THEN quarantine \cup {upload[p]}
                                            ELSE quarantine
                       \/ /\ upload' = upload
                          /\ quarantine' = quarantine
                          /\ faults' = faults + 1
         /\ (/\ upload[p] # NoFile
             /\ corrupt_inodes[InodeOf(p)] # -1
             /\ upload'[p] # upload[p]) =>
               /\ HandlingCorrupt(p)
               /\ CorruptOldEnough(corrupt_inodes[InodeOf(p)])]_vars

\* a corrupt bundle has been moved to the quarantine directory and its entry
\* dropped
C6_Witness ==
    /\ quarantine # {}
    /\ \A i \in Inodes : corrupt_inodes[i] = -1
    /\ \A p \in Paths : upload[p] = NoFile

\* C7 (as stated): after an inconclusive validation the source stays and is
\* placed in no queue, each following handling cycle only increments the
\* retry counter, and the validator runs again only after 100 such cycles.
C7_RetryAfterHundredCycles ==
    [][\A p \in Paths :
         /\ (HandlingInconclusive(p) /\ ~ValidatorRanOn(p)) =>
               /\ upload' = upload /\ pc' # "fanout"
               /\ inconclusive_inodes' =
                     [inconclusive_inodes EXCEPT ![InodeOf(p)] = @ + 1]
         /\ (HandlingInconclusive(p) /\ ValidatorRanOn(p)) =>
               skips[InodeOf(p)] >= RetryCycles]_vars

\* C7 (amended): after an inconclusive validation the source stays and is
\* placed in no queue, each following handling cycle only increments the
\* retry counter, and the validator runs again on the 100th following
\* handling cycle, after 99 cycles that only incremented the counter.
C7_RetryOnHundredthCycle ==
    [][\A p \in Paths :
         /\ (Handling(p) /\ inconclusive_inodes'[InodeOf(p)] = 1) =>
               upload' = upload /\ pc' # "fanout" /\ queue' = queue
         /\ (HandlingInconclusive(p) /\ ~ValidatorRanOn(p)) =>
               /\ upload' = upload /\ pc' # "fanout" /\ queue' = queue
               /\ inconclusive_inodes' =
                     [inconclusive_inodes EXCEPT ![InodeOf(p)] = @ + 1]
               /\ validated_inodes' = validated_inodes
               /\ corrupt_inodes' = corrupt_inodes
               /\ inconclusive_inodes[InodeOf(p)] < RetryCycles
         /\ (HandlingInconclusive(p) /\ ValidatorRanOn(p)) =>
               /\ skips[InodeOf(p)] = RetryCycles - 1
               /\ inconclusive_inodes[InodeOf(p)] = RetryCycles]_vars

\* the validator has run again after the back-off and found the bundle valid
C7_Witness ==
    /\ pc = "fanout"
    /\ validations[cur] = 2
    /\ skips[InodeOf(cur)] = RetryCycles - 1
    /\ InodeOf(cur) \in validated_inodes

\* C12: a bundle younger than min_age_seconds is not validated, not fanned
\* out and not removed by the Scanner in the cycle that handles it; a bundle
\* whose age equals min_age_seconds is validated.
C12_MinAgeGate ==
    [][\A p \in Paths :
         /\ (Handling(p) /\ get_file_age(p) < min_age_seconds) =>
               /\ validations' = validations
               /\ cacheVars' = cacheVars
               /\ upload' = upload
               /\ queue' = queue
               /\ quarantine' = quarantine
               /\ pc' # "fanout"
         /\ (/\ Handling(p)
             /\ get_file_age(p) = min_age_seconds
             /\ validations[p] = 0) => validations'[p] = 1]_vars

\* a bundle has been validated at the age of exactly min_age_seconds, after
\* a cycle that found it too young
C12_Witness ==
    \E p \in Paths : /\ upload[p] # NoFile
                     /\ get_file_age(p) = min_age_seconds
                     /\ validations[p] = 1

\* ------------------------------------------------ properties of the threads
\* worker d invokes the transfer tool
RsyncInvoked(d) == wpc[d] # "rsync" /\ wpc'[d] = "rsync"

\* C11: in a sync cycle the worker invokes the transfer tool only if its
\* queue held at least one .tbz file, the free-space probe returned a value
\* and the value is not below min_free_space_percent; a cycle whose probe
\* failed or was too low transfers nothing and leaves the queue unchanged.
C11_TransferOnlyAfterGoodProbe ==
    [][\A d \in Dests :
         /\ RsyncInvoked(d) =>
               /\ wpc[d] = "probe"
               /\ queued_count[d] > 0
               /\ free_percent'[d] \notin {-1, NoProbe}
               /\ free_percent'[d] >= min_free_space_percent
         /\ (wpc[d] = "probe" /\ wpc'[d] # "probe" /\ ~RsyncInvoked(d)) =>
               /\ queue' = queue
               /\ drained' = drained
               /\ wpc'[d] = "wait"
         /\ (drained'[d] \ drained[d] # {}) => wpc[d] = "rsync"]_vars

\* a worker is running the transfer tool after a probe that returned exactly
\* min_free_space_percent
C11_Witness ==
    \E d \in Dests : /\ wpc[d] = "rsync"
                     /\ free_percent[d] = min_free_space_percent
                     /\ queued_count[d] > 0

AllStopped == pc = "stopped" /\ \A d \in Dests : wpc[d] = "stopped"

\* C14: the stop event, once set, is never cleared; after it is set the
\* Scanner begins no further file and no further cycle, no worker begins a
\* sync cycle, and every thread eventually leaves its loop.
C14_StopsAtNextBoundary ==
    /\ [][/\ stop_event => stop_event'
          /\ (stop_event /\ pc \in {"wait", "handle", "stopped"}) =>
                /\ pc' \in {pc, "stopped"}
                /\ cur' = cur
                /\ validations' = validations
                /\ cacheVars' = cacheVars
                /\ queue' = queue \/ \E d \in Dests : wpc[d] = "rsync"
          /\ \A d \in Dests : (stop_event /\ wpc[d] \in {"wait", "stopped"})
                => wpc'[d] \in {wpc[d], "stopped"}]_vars
    /\ stop_event ~> AllStopped

\* the event was set while bundles were waiting and queued, and every thread
\* has left its loop
C14_Witness ==
    /\ stop_event
    /\ AllStopped
    /\ \E p \in Paths : upload[p] # NoFile
    /\ \E d \in Dests : QueueCount(queue, d) > 0

\* ------------------------------------------------ properties of the Ingester
\* the inserts bundle contents c call for have returned True for the
\* current bundle
InsertsDone(c) ==
    /\ c.spots > 0 => "spots" \in stage_ok
    /\ c.noise > 0 => "noise" \in stage_ok

\* the step removes bundle b, which was not in the processed set of the cycle
UnlinkedAsUnprocessed(b) ==
    /\ InIncoming(b)
    /\ incoming'[b] = NoBundle
    /\ b \notin processed_set'

\* C15: an extracted bundle that is not in the processed set is unlinked
\* only as the current bundle, after the spots insert and the noise insert
\* its records call for have succeeded; a bundle given up after a failed
\* insert stays in the incoming directory for the rest of the cycle.
C15_UnlinkOnlyAfterInserts ==
    /\ [][\A b \in Bundles :
            (incoming[b].ok /\ UnlinkedAsUnprocessed(b)) =>
                /\ ipc = "unlink"
                /\ b = Head(unprocessed)
                /\ InsertsDone(incoming[b])]_vars
    /\ [](\A b \in skipped : InIncoming(b))

\* in one cycle a bundle was given up after three failed inserts, and another
\* with spots was inserted, memoized and unlinked
C15_Witness ==
    /\ skipped # {}
    /\ \E b \in Bundles \ skipped :
         /\ b \in memoed
         /\ ~InIncoming(b)
         /\ spots_done[b] > 0

\* the step in which main finishes the current bundle as fully successful:
\* it leaves the unlink that follows mark_tbz_processed
FinishesBundle ==
    /\ ipc = "unlink"
    /\ unprocessed' = Tail(unprocessed)
    /\ restarts' = restarts

\* C16: when the Ingester finishes a bundle as fully successful, the
\* processed memo contains the bundle's pathname and the bundle file no
\* longer exists, also when writing the memo or unlinking the bundle fails.
C16_CompleteIsMemoizedAndGone ==
    [][FinishesBundle =>
          /\ Head(unprocessed) \in SeqRange(processed_file')
          /\ incoming'[Head(unprocessed)] = NoBundle]_vars

\* the step in which the current bundle is given up after a failed insert
GivesUp == ipc \in {"spots", "noise"} /\ skipped' = skipped \cup {Head(unprocessed)}

\* the step that starts the cycle after one in which bundles were given up
NextCycleStarts == skipped # {} /\ skipped' = {} /\ restarts' = restarts

\* each insert is called at most max_retries times for a bundle, the noise
\* insert only after the spots insert (when there are spots) returned True
RetriesBounded ==
    /\ [](tries.spots <= max_retries /\ tries.noise <= max_retries)
    /\ [][tries'.noise > tries.noise =>
            (incoming[Head(unprocessed)].spots > 0 => "spots" \in stage_ok)]_vars

\* a bundle given up is not memoized and not unlinked, then and for the rest
\* of the cycle, and the loop goes on with the next bundle
SkipLeavesBundle ==
    /\ [][GivesUp =>
            /\ unprocessed' = Tail(unprocessed)
            /\ processed_file' = processed_file
            /\ attempt = max_retries - 1
            /\ max_retries \in {tries'.spots, tries'.noise}]_vars
    /\ [][\A b \in skipped \cap skipped' :
            /\ incoming'[b] = incoming[b]
            /\ b \in memoed' => b \in memoed]_vars
    /\ [](\A b \in skipped : InIncoming(b) /\ b \notin processed_set)

\* a bundle given up is among the unprocessed bundles of the next cycle
RetriedNextCycle ==
    [][NextCycleStarts => \A b \in skipped : b \in SeqRange(unprocessed')]_vars

\* C17: for each bundle in a cycle the spots insert and the noise insert
\* are each attempted at most 3 times, the noise insert only after the
\* spots insert succeeded; when a third attempt fails the bundle is neither
\* memoized nor unlinked, the loop continues with the next bundle, and the
\* bundle is attempted again in the next cycle.
C17_ThreeAttemptsThenNextCycle ==
    /\ RetriesBounded
    /\ SkipLeavesBundle
    /\ RetriedNextCycle

\* C18: after the Ingester was interrupted in a cycle and restarted, no
\* bundle's records have been inserted a second time: a pathname has had no
\* more successful spots inserts, and no more successful noise inserts, than
\* bundles were delivered under it.
C18_NoSecondInsertAfterRestart ==
    restarts > 0 =>
        \A b \in Bundles : /\ spots_done[b] <= deliveries[b]
                           /\ noise_done[b] <= deliveries[b]

\* the step that starts a cycle: main finds bundles and partitions them
CycleStarts == ipc = "sleep" /\ deliveries' = deliveries

\* bundle b is on disk with its pathname in the memo file
Zombie(b) == InIncoming(b) /\ b \in SeqRange(processed_file)

\* C19: a bundle whose pathname is in the processed memo at the start of a
\* cycle is unlinked in that cycle and is not among the bundles the cycle
\* extracts and inserts.
C19_MemoizedUnlinkedNotProcessed ==
    [][CycleStarts =>
          \A b \in Bundles :
              Zombie(b) => /\ incoming'[b] = NoBundle
                           /\ b \notin SeqRange(unprocessed')]_vars

\* the step in which the extraction of the current bundle fails
ExtractionFails ==
    /\ ipc = "extract"
    /\ ~incoming[Head(unprocessed)].ok
    /\ deliveries' = deliveries
    /\ restarts' = restarts

\* nothing is memoized or inserted and the loop goes on with the next bundle
NoTraceAndContinue ==
    /\ processed_file' = processed_file
    /\ cumHist' = cumHist
    /\ tries' = NoTries
    /\ unprocessed' = Tail(unprocessed)
    /\ ipc' = IF Tail(unprocessed) = <<>> THEN "sleep" ELSE "extract"

\* C20 as stated: when extraction of a bundle fails the bundle is unlinked,
\* not memoized and not inserted, and the loop continues with the next
\* bundle.
C20_FailedExtractionUnlinks ==
    [][ExtractionFails =>
          /\ incoming'[Head(unprocessed)] = NoBundle
          /\ NoTraceAndContinue]_vars

\* C20: when extraction of a bundle fails, the unlink of the bundle is
\* attempted and the bundle is gone unless that unlink fails; either way its
\* pathname is not added to the memo, no insert is made for it, and the
\* loop continues with the next bundle.
C20_FailedExtractionTriesUnlink ==
    [][ExtractionFails =>
          /\ \/ incoming'[Head(unprocessed)] = NoBundle
             \/ /\ incoming' = incoming
                /\ ffaults' = ffaults + 1
          /\ NoTraceAndContinue]_vars

\* a bundle that could not be extracted is gone without memo entry and
\* without insert, and the cycle is at its next bundle
C20_Witness ==
    /\ ipc = "extract"
    /\ \E b \in Bundles :
         /\ deliveries[b] > 0
         /\ ~InIncoming(b)
         /\ b \notin memoed
         /\ spots_done[b] = 0 /\ noise_done[b] = 0

\* --------------------------------------------- properties of the BatchLoader
\* the step in which the run adds tar t to completed
MarkedComplete(t) == lpc = "end" /\ t \notin completed /\ t \in completed'

\* C21: the BatchLoader adds a tar to completed only when every inner tbz
\* of the tar has been read and no insert of its records, in the loop or in
\* the final flush, has failed.
C21_CompletedOnlyWhenAllInserted ==
    [][\A t \in TarNames :
          MarkedComplete(t) => /\ idx = Len(tars[t])
                               /\ ~unread
                               /\ ~failed_insert']_vars

\* the step in which the limit check of the member loop fires
LimitHit == ~tbz_limit_hit /\ tbz_limit_hit'

\* C22: with --limit N the run stops when exactly N inner tbz files have
\* been processed in it, and the tar in which the limit was hit is not added
\* to completed.
C22_LimitStopsAfterExactlyN ==
    /\ [][LimitHit => run_tbz' = args.limit]_vars
    /\ [][(lpc = "end" /\ tbz_limit_hit) =>
            (completed' = completed /\ lpc' = "idle")]_vars

\* the tar loop is at tar t
AtTar(t) == lpc = "tar" /\ tar_files # <<>> /\ Head(tar_files) = t

\* the step passes over the tar at the head without opening it
SkipsTar ==
    /\ tar_files' = Tail(tar_files)
    /\ opened' = opened
    /\ lfaults' = lfaults
    /\ tarVars' = tarVars

\* the step opens, or tries to open, the tar at the head
TakesTar(t) == t \in opened' \/ lfaults' = lfaults + 1

\* C23: a tar recorded in completed_tars of the state file is skipped by a
\* run without --reset, with no read of its members and no insert; a run
\* with --reset skips no tar.
C23_RecordedTarIsSkipped ==
    /\ [][\A t \in state_file.completed_tars :
             (AtTar(t) /\ ~args.reset) => SkipsTar]_vars
    /\ [][\A t \in TarNames : (AtTar(t) /\ args.reset) => TakesTar(t)]_vars


\* ------------------------------------------- properties of the delete patterns
\* the files whose name matches a delete pattern
Unwanted == {p \in Paths : FileName(p) \in {"AI6VN_25.tbz", "AI6VN_25.txt"}}
\* a step of scan_and_queue (the clock and the uploads stand still)
ScanStep == pc = "wait" /\ ~is_set /\ now' = now /\ uploads' = uploads
\* the first loop of the scan reached p and tried to unlink it
SeenByScan(p) == res'[p].r \in {"deleted", "deletefail"}
\* p was never validated, collected, processed or queued
NeverHandled(p) ==
    /\ validations[p] = 0
    /\ cur # p
    /\ \A i \in 1..Len(tbz_files) : tbz_files[i] # p
    /\ \A d \in Dests : queue[d][FileName(p)] = NoFile
UnwantedNeverHandled == \A p \in Unwanted : NeverHandled(p)

ValidDate(t) == t = "250101"
ValidTime(t) == t = "1200"
\* a line of at least 34 tokens with a field that cannot be parsed
HasParseError(l) ==
    /\ Len(l) >= NumFields
    /\ \/ ~ValidDate(l[1])
       \/ ~ValidTime(l[2])
       \/ \E i \in FloatFields : l[i] \in {"abc", "none"}
       \/ \E i \in IntFields : l[i] \in {"abc", "none", "inf"}
GoodRecord == convert_spot_to_clickhouse(ParseLine(GoodLine).spot)
BundleDone == sp_pc = "done"
GoodLinesInserted ==
    \A j \in 1..Len(sp_file) :
        sp_file[j] = GoodLine => \E k \in 1..Len(sp_inserted) : sp_inserted[k] = GoodRecord

\* C25: a spot line with a parse error in any of its 34 fields (the date and
\* the time included) is skipped on its own: once the bundle is done, the
\* well-formed lines of the same file have their records in the database.
C25_BadLineSkippedAlone ==
    (BundleDone /\ \E i \in 1..Len(sp_file) : HasParseError(sp_file[i]))
        => GoodLinesInserted

\* the part that holds: a numeric field that is not a number
HasValueError(l) ==
    /\ Len(l) >= NumFields
    /\ ValidDate(l[1]) /\ ValidTime(l[2])
    /\ \/ \E i \in FloatFields : l[i] \in {"abc", "none"}
       \/ \E i \in IntFields : l[i] \in {"abc", "none"}
ValueErrorSkippedAlone ==
    (BundleDone /\ \E i \in 1..Len(sp_file) : HasValueError(sp_file[i]))
        => GoodLinesInserted /\ Len(sp_inserted) = 1

\* the line a step of the loop over the lines takes
LineTaken == sp_file[sp_line + 1]
WellFormed(l) ==
    /\ ValidDate(l[1]) /\ ValidTime(l[2])
    /\ \A i \in FloatFields : l[i] \in {"7", "1.5"}
    /\ \A i \in IntFields : l[i] \in {"7", "1.5"}
First34(l) == SubSeq(l, 1, NumFields)

\* C26: in the Ingester and in the BatchLoader a spot line yields a record
\* only if it has at least 34 whitespace-separated tokens: a line of 33
\* tokens leaves the spots as they are, a line of exactly 34 well-formed
\* tokens adds one record, and a line of 35 or more tokens adds the record
\* its first 34 tokens give (none when they give none).
C26_RecordFromFirst34Tokens ==
    [][(sp_pc = "parse" /\ sp_line < Len(sp_file)) =>
         /\ Len(sp_spots') > Len(sp_spots) => Len(LineTaken) >= NumFields
         /\ Len(LineTaken) < NumFields => sp_spots' = sp_spots
         /\ (Len(LineTaken) = NumFields /\ WellFormed(LineTaken))
               => /\ Len(sp_spots') = Len(sp_spots) + 1
                  /\ LET spot == sp_spots'[Len(sp_spots')]
                     IN /\ spot[1] = Str(LineTaken[1])
                        /\ spot[3] = (IF LineTaken[3] = "7" THEN Num(70) ELSE Num(15))
                        /\ spot[4] = (IF LineTaken[4] = "7" THEN Num(70) ELSE Num(10))
                        /\ spot[8] = (IF LineTaken[8] = "none" THEN Str("")
                                      ELSE Str(LineTaken[8]))
         /\ Len(LineTaken) > NumFields
               => LET y == ParseLine(First34(LineTaken))
                  IN /\ y.r = "spot" => sp_spots' = Append(sp_spots, y.spot)
                     /\ y.r # "spot" => Len(sp_spots') <= Len(sp_spots)]_vars

\* a line of 35 tokens and the line of its first 34 tokens have given the
\* same record
C26_Witness ==
    /\ sp_line = 2
    /\ Len(sp_file[1]) = NumFields + 1
    /\ sp_file[2] = First34(sp_file[1])
    /\ Len(sp_spots) = 2
    /\ sp_spots[1] = sp_spots[2]

\* ----------------------------------------------- properties of noise files
\* a step of the loop over the noise files, the body it reads and the number
\* of tokens on its lines
NoiseStep == nz_idx < Len(nz_files) /\ nz_idx' = nz_idx + 1
BodyRead == nz_files[nz_idx + 1]
TokenCount(body) ==
    IF body = <<>> THEN 0
    ELSE IF Len(body) = 1 THEN Len(body[1])
    ELSE Len(body[1]) + Len(body[2])
YieldsRecord == Len(nz_records') = Len(nz_records) + 1
YieldsNothing == nz_records' = nz_records
KeepsRecords == SubSeq(nz_records', 1, Len(nz_records)) = nz_records

\* the statement with the tokens on one line: a noise file yields a record
\* only if its body is one line of exactly 15 tokens
C27_RecordOnlyFromOneLine ==
    [][NoiseStep =>
         (YieldsRecord => Len(BodyRead) = 1 /\ Len(BodyRead[1]) = NoiseFields)]_vars

\* C27: in the Ingester and in the BatchLoader a noise file yields a noise
\* record only if its body, split at white space (line breaks included), is
\* exactly 15 tokens; a file with any other number of tokens yields no
\* record; the records of the other noise files of the bundle are kept, and
\* a well-formed file yields its record whatever the other file was.
C27_RecordOnlyFrom15Tokens ==
    [][NoiseStep =>
         /\ YieldsRecord \/ YieldsNothing
         /\ KeepsRecords
         /\ YieldsRecord => TokenCount(BodyRead) = NoiseFields
         /\ TokenCount(BodyRead) # NoiseFields => YieldsNothing
         /\ BodyRead = GoodBody => YieldsRecord]_vars

\* a file of 16 tokens was skipped and the well-formed file after it has
\* yielded its record
C27_Witness ==
    /\ nz_idx = 2
    /\ TokenCount(nz_files[1]) = NoiseFields + 1
    /\ nz_files[2] = GoodBody
    /\ Len(nz_records) = 1

InInt32(v) == BigLE(Int32Min, v) /\ BigLE(v, Int32Max)
OvTokenOf(body) == Split(body)[NoiseFields]

\* C28: every noise record produced by the Ingester or by the BatchLoader
\* has its ov value inside the signed 32-bit range [-2147483648,
\* 2147483647]; the record of a file whose ov token is 3000000000 has
\* ov = 2147483647.
C28_OvInInt32 ==
    /\ \A i \in 1..Len(nz_records) : InInt32(nz_records[i].ov)
    /\ (/\ nz_idx = 1
        /\ TokenCount(nz_files[1]) = NoiseFields
        /\ OvTokenOf(nz_files[1]) = "3000000000"
        /\ Len(nz_records) = 1) => nz_records[1].ov = Int32Max

\* the part that holds: the records of the BatchLoader
LoaderOvInInt32 == nz_prog = "loader" => C28_OvInInt32

\* --------------------------------------------- properties of the grid fix
\* a valid Maidenhead grid: two field letters A-R, two digits and, in a
\* grid of six characters, two subsquare letters a-x, in either case
ValidGrid(g) ==
    /\ Len(g) \in {4, 6}
    /\ g[1] \in {"A", "R", "r"} /\ g[2] \in {"A", "R"}
    /\ g[3] \in {"0", "9"} /\ g[4] \in {"0", "9"}
    /\ Len(g) = 6 => g[5] \in {"a", "l", "x", "L"} /\ g[6] \in {"a", "l", "x", "L"}
FieldIndex(c) == IF c = "A" THEN 0 ELSE 17
SquareIndex(c) == IF c = "0" THEN 0 ELSE 9
SubIndex(c) == CASE c = "a" -> 0 [] c \in {"l", "L"} -> 11 [] c = "x" -> 23
\* the centre of the subsquare of g ('ll' for four characters), in
\* thousandths of a degree: the south-west corner plus half a subsquare
Centre(g) ==
    LET sublon == IF Len(g) = 6 THEN SubIndex(g[5]) ELSE 11
        sublat == IF Len(g) = 6 THEN SubIndex(g[6]) ELSE 11
    IN [lat |-> Round3((FieldIndex(g[2]) * 10 - 90 + SquareIndex(g[4])) * 48
                        + sublat * 2 + 1),
        lon |-> Round3((FieldIndex(g[1]) * 20 - 180 + SquareIndex(g[3]) * 2) * 48
                        + sublon * 4 + 2)]
Returned == gr_pc = "returned"

\* C29: maidenhead_to_latlon(G) returns the centre of the square for every
\* valid grid G of 4 or 6 characters, the same for G of 4 characters as for
\* G followed by 'll', and returns the sentinel (-999, -999) for every input
\* that is not a valid grid.
C29_CentreOrSentinel ==
    Returned =>
        /\ ValidGrid(gr_in) => gr_out = Centre(gr_in)
        /\ (ValidGrid(gr_in) /\ Len(gr_in) = 4)
              => gr_out = maidenhead_to_latlon(gr_in \o <<"l", "l">>)
        /\ ~ValidGrid(gr_in) => gr_out = Sentinel

\* the part that holds: valid grids, and inputs of fewer than 4 characters or
\* with a square character that is not a digit
ValidGridGivesCentre ==
    Returned =>
        /\ ValidGrid(gr_in) => gr_out = Centre(gr_in) /\ gr_out # Sentinel
        /\ (ValidGrid(gr_in) /\ Len(gr_in) = 4)
              => gr_out = maidenhead_to_latlon(gr_in \o <<"l", "l">>)
        /\ (Len(gr_in) < 4 \/ (Len(gr_in) >= 4 /\ gr_in[3] = "a"))
              => gr_out = Sentinel

\* --------------------------------------- properties of the validation caches
InValidated(i) == i \in validated_inodes
InCorrupt(i) == corrupt_inodes[i] # -1
InInconclusive(i) == inconclusive_inodes[i] # 0
CachesHolding(i) ==
    (IF InValidated(i) THEN 1 ELSE 0) + (IF InCorrupt(i) THEN 1 ELSE 0)
    + (IF InInconclusive(i) THEN 1 ELSE 0)
InAtMostOneCache == \A i \in Inodes : CachesHolding(i) <= 1
\* the validator runs on the file at p; an inconclusive entry whose back-off
\* has run out is deleted by the same call of handle_tbz_file before that
ValidatedWhenInNoCache ==
    \A p \in Paths :
        ValidatorRanOn(p) =>
            /\ ~InValidated(InodeOf(p))
            /\ ~InCorrupt(InodeOf(p))
            /\ InInconclusive(InodeOf(p)) => ~RetryNotDue(inconclusive_inodes[InodeOf(p)])
\* inode i is in no cache after the step
Cleared(i) ==
    /\ i \notin validated_inodes'
    /\ corrupt_inodes'[i] = -1
    /\ inconclusive_inodes'[i] = 0
\* the fan-out of the pass ends with every destination counted
FanoutSucceeded == pc = "fanout" /\ cur' = NoPath /\ AllSucceeded

\* C30: at every point of a Reflector run each inode is in at most one of
\* validated_inodes, corrupt_inodes and inconclusive_inodes; the validator is
\* invoked on an inode only when it is in none of them; and after a fan-out
\* in which all destinations succeeded the inode of the file the pass was
\* started for is in none of them.
C30_CachesDisjointAndCleared ==
    /\ []InAtMostOneCache
    /\ [][ValidatedWhenInNoCache]_vars
    /\ [][FanoutSucceeded => Cleared(curFile.ino)]_vars

\* the parts that hold: the first two, and the third for a source that is
\* still in the upload directory when the fan-out ends
CachesDisjoint == []InAtMostOneCache /\ [][ValidatedWhenInNoCache]_vars
ClearedWhenSourceThere ==
    [][(FanoutSucceeded /\ upload[cur] = curFile)
          => Cleared(curFile.ino)]_vars
\* ------------------------------------------ properties of two upload dirs
\* the step of process_file that unlinks the source of the pass
UnlinksSource == PassOver /\ upload[cur] # NoFile /\ upload'[cur] = NoFile

\* C31: when fan-out unlinks a source bundle, every destination queue holds
\* or has held that bundle's own content; a same-named file another upload
\* directory put into the queues does not stand in for it
C31_OwnContentInEveryQueue ==
    [][UnlinksSource => \A d \in Dests : d \in accepted[cur]]_vars

\* ----------------------------------------- properties of repeated inserts
\* how often the first sub-batch of b's spots has at least been passed to a
\* client.insert that succeeded: once per insert_spots that returned True,
\* and once more when an insert_spots failed at a later sub-batch
FirstBatchInserts(b) ==
    spots_done[b] + (IF partial_rows[b] > 0 THEN 1 ELSE 0)

\* C32: within one uninterrupted Ingester run the spot records of a bundle
\* are passed to a successful insert call at most once, also when the noise
\* insert fails and the bundle is retried in the next cycle, and also when a
\* later sub-batch fails and the whole insert is retried
C32_SpotsInsertedAtMostOnce ==
    restarts = 0 => \A b \in Bundles : FirstBatchInserts(b) <= deliveries[b]

\* the first case alone, with no failing file operation: no second
\* insert_spots that returns True
NoSecondSpotsInsert ==
    restarts = 0 /\ ffaults = 0 =>
        \A b \in Bundles : spots_done[b] <= deliveries[b]

\* the second case alone: no sub-batch inserted by an insert_spots that
\* failed and was followed by one that succeeded
NoPartialThenWhole ==
    restarts = 0 =>
        \A b \in Bundles : deliveries[b] = 1 /\ partial_rows[b] > 0 =>
                               spots_done[b] = 0

\* ------------------------------------------- properties of the copy path
\* the entry of queue directory d that a copy is writing at the moment
PartialEntries(d) ==
    IF cp = "partial" /\ d = destIdx THEN {TmpName(FileName(cur))} ELSE {}

\* the bundles of queue directory d that are there under their final name
QueuedBundles(d) == {FinalName(n) : n \in Present(queue[d])}

\* the worker of d counts, and the rsync of d returns
Counts(d) == wpc[d] = "wait" /\ wpc'[d] = "probe"
Transfers(d) == wpc[d] = "rsync" /\ wpc'[d] = "wait"

\* a bundle appears in d under its final name
Appears(d, n) == queue[d][n] = NoFile /\ queue'[d][n] # NoFile

\* C33: a worker neither counts nor transfers a partially written bundle:
\* the count is the number of bundles queued under their final name, the
\* entries a transfer takes away are such bundles and never a temp file, and
\* in the copy path a bundle appears under its final name only when the
\* copy into the temp file has completed
C33_NoPartialCountedOrTransferred ==
    [][\A d \in Dests :
         /\ Counts(d) => queued_count'[d] = Cardinality(QueuedBundles(d))
         /\ Transfers(d) =>
               /\ DirEntries(d) \ DirEntries(d)' \subseteq QueuedBundles(d)
               /\ PartialEntries(d) \subseteq DirEntries(d)'
         /\ \A n \in Names :
               Appears(d, n) /\ ~can_hardlink[SourceDir(cur)] =>
                   cp = "complete" /\ queue'[d][n] = curFile]_vars

\* a worker has transferred bundles from the queue directory in which a
\* copy is under way
C33_Witness ==
    /\ cp = "partial"
    /\ drained[destIdx] # {}
    /\ wpc[destIdx] = "wait"
    /\ TmpName(FileName(cur)) \in DirEntries(destIdx)

\* ------------------------------------- properties of the queue directories
\* a bundle leaves queue directory d
Leaves(d, n) == queue[d][n] # NoFile /\ queue'[d][n] = NoFile

\* the Scanner, in the iteration of process_file for d, puts the source
\* under its filename into queue directory d
ScannerPlaces(d, n) ==
    /\ pc = "fanout"
    /\ destIdx = d
    /\ n = FileName(cur)
    /\ outcome'[d] = "placed"
    /\ queue'[d][n] = upload[cur]

\* the rsync of d's worker has transferred n and removed it; no other queue
\* directory changes in that step
TransferredByOwnWorker(d, n) ==
    /\ n \in drained'[d] \ purged'[d]
    /\ \A e \in Dests \ {d} : queue'[e] = queue[e]

\* purge_from_largest_queue, called by the Scanner before a scan or after
\* ENOSPC, has unlinked n from a queue that held the most bundles
PurgedByScanner(d, n) ==
    /\ n \in purged'[d] \ drained'[d]
    /\ pc \in {"wait", "fanout"}
    /\ \A e \in Dests :
          Cardinality(Present(queue[e])) <= Cardinality(Present(queue[d]))

ValidAndOldEnough(p) ==
    upload[p] # NoFile /\ upload[p].kind = "good" /\ OldEnough(p)

\* the pass for p has counted every destination and unlinked the source
QueuedAndUnlinked(p) ==
    upload[p] = NoFile /\ res[p] = [r |-> "unlinked", failed |-> {}]

\* C35: under fair scheduling every valid bundle that stays in an upload
\* directory and is old enough is eventually placed in every queue and its
\* source unlinked, also when max_files_per_scan or more other .tbz files
\* are there that never complete
C35_ValidEventuallyQueued ==
    \A p \in GoodPaths : ValidAndOldEnough(p) ~> QueuedAndUnlinked(p)

\* p is among the first max_files_per_scan files of the listing
ListedInTime(p) ==
    \E i \in 1..Min(max_files_per_scan, Len(dir_order)) : dir_order[i] = p

\* the same for the bundles the listing reaches before the scan stops
ListedEventuallyQueued ==
    \A p \in GoodPaths :
        (ValidAndOldEnough(p) /\ ListedInTime(p)) ~> QueuedAndUnlinked(p)

\* --------------------------------------- properties of the Ingester's loop
\* C36: in loop mode without --dry-run and with a store that accepts every
\* insert call, every bundle placed in an incoming directory is eventually
\* unlinked by the Ingester, so no bundle is retried for ever
C36_EveryBundleEventuallyUnlinked ==
    \A b \in Bundles : InIncoming(b) ~> ~InIncoming(b)

\* the same for the bundles whose spots all convert
ConvertibleEventuallyUnlinked ==
    \A b \in Bundles :
        (InIncoming(b) /\ incoming[b].convertible) ~> ~InIncoming(b)

\* ------------------------------------------- properties of reused inodes
\* the Scanner deletes or quarantines the file at p as corrupt
RemovedAsCorrupt(p) == Handling(p) /\ upload'[p] = NoFile

\* handle_tbz_file passes the file at p on to process_file
PassedToFanout(p) == Handling(p) /\ pc' = "fanout"

\* C37: a bundle is linked or copied into a queue only if the validator
\* returned valid for that very file, and deleted or quarantined as corrupt
\* only if the validator returned corrupt for that very file; a verdict
\* cached under an inode number is not applied to another file that gets the
\* same inode number
C37_VerdictOfThatVeryFile ==
    [][\A p \in Paths :
         /\ PassedToFanout(p) =>
               validations'[p] > 0 /\ upload[p].kind = "good"
         /\ RemovedAsCorrupt(p) =>
               p \in everCorrupt /\ upload[p].kind = "bad"]_vars

\* the two halves
FannedOutOnlyWhenValidated ==
    [][\A p \in Paths :
         PassedToFanout(p) =>
             validations'[p] > 0 /\ upload[p].kind = "good"]_vars
RemovedOnlyWhenFoundCorrupt ==
    [][\A p \in Paths : RemovedAsCorrupt(p) => p \in everCorrupt]_vars

\* -------------------------------------------- properties of the memo reads
\* a cycle ends: the for loop is through, or every bundle found was a zombie
CycleEnds ==
    /\ restarts' = restarts
    /\ ipc' = "sleep"
    /\ ipc # "sleep" \/ CycleStarts

MarkStep == ipc = "mark" /\ ipc' = "unlink" /\ restarts' = restarts
AllEntries == processed_file \o <<Head(unprocessed)>>
EntriesSize(q) == Len(q) * EntrySize
Newest75 ==
    LET n == Len(AllEntries)
        k == IF (3 * n) \div 4 >= 1 THEN (3 * n) \div 4 ELSE 1
    IN  [i \in 1..k |-> AllEntries[n - k + i]]
ExpectedMemo ==
    IF EntriesSize(AllEntries) <= max_processed_file_size
    THEN AllEntries
    ELSE Newest75
C39_MemoAfterMark == [][MarkStep => processed_file' = ExpectedMemo]_vars

\* the same when the memo was read and written without error
MemoAfterMarkWithoutError ==
    [][MarkStep /\ ffaults' = ffaults => processed_file' = ExpectedMemo]_vars

\* a mark has cut a memo of three entries to its newest two
MemoWasCut ==
    /\ ipc = "unlink" /\ Len(processed_file) = 2
    /\ processed_file[1] \in OldBundles
    /\ processed_file[2] = Head(unprocessed)

\* ---------------------------------------------------------------------
\* the steps in which purge_from_largest_queue runs: the fan-out step that
\* hits ENOSPC, and the start of a scan that has taken files out of a queue
\* or failed to (a worker's step records what it took in drained)
ScanPurged ==
    /\ pc = "wait" /\ (queue' # queue \/ faults' # faults)
    /\ upload' = upload
    /\ drained' = [d \in Dests |-> {}]
PurgeRuns == ScanPurged \/ \E d \in Dests : EnospcAt(d)
NoUnlinkFailed ==
    IF ScanPurged THEN faults' = faults ELSE faults' = faults + 1
Gone(e) == {n \in Names : Leaves(e, n)}
MostFiles(e) ==
    \A x \in Dests :
        Cardinality(Present(queue[x])) <= Cardinality(Present(queue[e]))
BatchOf(e) ==
    IF Cardinality(Present(queue[e])) < queue_purge_batch
    THEN Cardinality(Present(queue[e])) ELSE queue_purge_batch
OldestFirst(e, T) ==
    \A x \in T, y \in Present(queue[e]) \ T :
        queue[e][x].mtime <= queue[e][y].mtime
OthersUntouched(e) ==
    /\ \A x \in Dests \ {e} : queue'[x] = queue[x]
    /\ \A n \in Names : queue'[e][n] \in {queue[e][n], NoFile}
    /\ upload' = upload /\ quarantine' = quarantine
    /\ \A x \in Dests : ScanPurged \/ ~EnospcAt(x) => tmp'[x] = tmp[x]

\* C40 (as stated): purge_from_largest_queue removes files only from the
\* one queue directory that holds the most .tbz files, removes exactly the
\* min(queue_purge_batch, n) files with the oldest mtime among its n .tbz
\* files, and leaves every other queue directory, every non-.tbz file and
\* every upload directory unchanged.
C40_ExactlyTheOldestBatch ==
    [][PurgeRuns =>
         \E e \in Dests :
            /\ MostFiles(e)
            /\ Cardinality(Gone(e)) = BatchOf(e)
            /\ OldestFirst(e, Gone(e))
            /\ OthersUntouched(e)]_vars

\* C40 (amended): the files removed are some of the min(queue_purge_batch,
\* n) oldest files of one queue directory that holds the most .tbz files:
\* all of them when no unlink fails, fewer when one does; nothing else
\* changes.
C40_WithinTheOldestBatch ==
    [][PurgeRuns =>
         \E e \in Dests :
            /\ MostFiles(e)
            /\ \E T \in SUBSET Present(queue[e]) :
                  /\ Cardinality(T) = BatchOf(e)
                  /\ OldestFirst(e, T)
                  /\ Gone(e) \subseteq T
                  /\ NoUnlinkFailed => Gone(e) = T
            /\ OthersUntouched(e)]_vars

\* a purge has taken the older of two bundles out of a queue and left the
\* newer one, while another queue holds a bundle too
C40_Witness ==
    \E e, x \in Dests : \E n, k \in Names :
        /\ x # e /\ n # k
        /\ n \in purged[e] /\ ~Holds(e, n)
        /\ Holds(e, k) /\ k \notin purged[e]
        /\ QueueCount(queue, x) > 0

====
